---- MODULE Spec2Model ----
(***************************************************************************)
(* Model of the munidata scrape pipeline: the POST /scrape-runs handler,  *)
(* the Celery delivery of run_scrape_task and execute_scrape_pipeline      *)
(* with its two engine phases, the per-kind and per-month loops, the       *)
(* persistence session and the Run row it drives.                          *)
(***************************************************************************)
EXTENDS Integers, Sequences, FiniteSets, TLC

VARIABLES
    run,        \* the scrape_runs row as committed in the database
    req,        \* the parameters the Run was created with (months, contract_types)
    rows,       \* number of committed record rows tagged with the run id
    writer,     \* who committed run.status last: "none", "handler" or "worker"
    hpc,        \* position of the create_scrape_run request handler
    task,       \* the run_scrape_task message: "none", "queued", "running", "acked"
    deliveries, \* how many times the message has been delivered to a worker
    w,          \* locals of the current execute_scrape_pipeline invocation
    obs,        \* what the current invocation has done so far (history)
    call,       \* one invocation of a function of column_mapping.py
    rawdir,     \* the raw download directory and the scrapers writing into it
    pager,      \* one paginated table extraction of an engine
    fetch,      \* one call of HTTPScraper._get_with_retry
    sect,       \* one kind x month extraction of an engine
    portal      \* the resources of one PortalScraper

pipelineVars == <<run, req, rows, writer, hpc, task, deliveries, w, obs>>
scraperVars == <<call, rawdir, pager, fetch, sect, portal>>
vars == <<run, req, rows, writer, hpc, task, deliveries, w, obs, call, rawdir,
          pager, fetch, sect, portal>>

-----------------------------------------------------------------------------
(* Bounds of the model *)

MaxMonths == 2       \* longest month list of a request
MaxKinds == 2        \* longest kind list of a request
MaxBatch == 1        \* records in a non-empty batch of one kind x month
MaxDeliveries == 2   \* deliveries of the task message (acks_late redelivery)
ShortExc == 40       \* length of a short exception text
LongExc == 1600      \* length of a long exception text
MaxPages == 2        \* pages of a paginated table
MaxLinks == 2        \* pagination links on one page
MaxCells == 4        \* header cells of a table
MaxColspan == 2      \* largest colspan attribute of a header cell
MaxHeaderLen == 4    \* characters of a raw header given to normalize_header
MaxColumns == 2      \* columns of a row given to get_cell
MaxAliases == 2      \* aliases of a field given to get_cell
MaxMoneyLen == 4     \* characters of an amount given to parse_money_clp
MaxDigitRun == 4     \* longest digit group of a text given to is_rut or parse_money_clp
MaxFields == 3       \* columns of a raw record given to a normalizer
MaxChain == 101      \* table pages of one extraction that are told apart
MaxTables == 2       \* tables of a page given to _parse_html_table
MaxTableRows == 4    \* <tr> elements of one table

(* Constants of the program *)

ErrorCap == 2000         \* "; ".join(errors)[:2000]
ExcCap == 1500           \* str(e)[:1500]
TracebackTail == 500     \* traceback.format_exc()[-500:]
HttpKindPrefix == 23     \* len("HTTP scraper error (" + "): ")
BrowserKindPrefix == 29  \* len("Playwright scraper error (" + "): ")
BrowserFailPrefix == 27  \* len("Playwright scraper failed: ")
JoinSep == 2             \* len("; ")
LaunchFailPrefix == 23   \* len("Failed to launch task: ")
MAX_RETRIES == 3         \* attempts of one GET in _get_with_retry
max_pages == 100         \* pages _extract_table_data reads at most
HttpPageCap == 50        \* _extract_all_pages(..., max_pages: int = 50)
DirectUrls == 4          \* len(urls_to_try) in _try_direct_url

Min(a, b) == IF a < b THEN a ELSE b

-----------------------------------------------------------------------------
(* Inputs *)

KindNames == {"honorarios", "Contrata", "planta", "escalas"}

RECURSIVE SeqsUpTo(_, _)
SeqsUpTo(S, n) ==
    IF n = 0 THEN {<<>>}
    ELSE LET shorter == SeqsUpTo(S, n - 1)
         IN  shorter \cup {Append(s, x) : s \in shorter, x \in S}

NoRepeat(s) == \A i, j \in 1..Len(s) : i # j => s[i] # s[j]

\* months 1..k in ascending order, and the same months in descending order
MonthLists ==
    {[i \in 1..k |-> i] : k \in 0..MaxMonths}
        \cup {[i \in 1..k |-> k + 1 - i] : k \in 0..MaxMonths}
KindLists == {s \in SeqsUpTo(KindNames, MaxKinds) : NoRepeat(s)}
ExcLens == {ShortExc, LongExc}
BatchSizes == {0, MaxBatch}

Terminal == {"COMPLETED", "FAILED"}

\* str.lower() on the kind names a request can carry
Lower(k) ==
    CASE k = "Contrata" -> "contrata"
      [] k = "HONORARIOS" -> "honorarios"
      [] k = "PLANTA" -> "planta"
      [] OTHER -> k

RecordKinds == {"honorarios", "contrata", "planta"}

\* len(kind_lower)
KindLen(k) ==
    CASE k = "honorarios" -> 10
      [] k = "contrata" -> 8
      [] k = "planta" -> 6
      [] OTHER -> 7

\* run.contract_types or ["honorarios"]
KindsOrDefault(ks) == IF ks = <<>> THEN <<"honorarios">> ELSE ks

-----------------------------------------------------------------------------
(* Pure parts of execute_scrape_pipeline *)

\* faulty variant of ShouldFallback: Phase 2 runs whatever Phase 1 loaded
ShouldFallbackAlways(total) == TRUE

\* if total_loaded == 0:  (Phase 2 guard)
ShouldFallback(total) == total = 0

\* faulty variant of FinalStatus: the test of the error list is inverted
FinalStatusIgnoringErrors(total, errs) ==
    IF total > 0 \/ errs # <<>> THEN "COMPLETED" ELSE "FAILED"

\* if total_loaded > 0 or not errors: COMPLETED else FAILED
FinalStatus(total, errs) ==
    IF total > 0 \/ errs = <<>> THEN "COMPLETED" ELSE "FAILED"

RECURSIVE SumLen(_)
SumLen(errs) == IF errs = <<>> THEN 0 ELSE Head(errs).len + SumLen(Tail(errs))

\* len("; ".join(errors))
JoinLen(errs) ==
    IF errs = <<>> THEN 0 ELSE SumLen(errs) + JoinSep * (Len(errs) - 1)

\* len("; ".join(errors)[:2000])
JoinedErrorLen(errs) == Min(JoinLen(errs), ErrorCap)

\* len(f"{str(e)[:1500]}\n{traceback.format_exc()[-500:]}")
FatalErrorLen(e, tb) == Min(e, ExcCap) + 1 + Min(tb, TracebackTail)

\* faulty variant of CombineErrors: Phase 1's errors are always kept
CombineErrorsAlways(total, phase1, errs) == phase1 \o errs

\* if total_loaded == 0 and errors_phase1: errors = errors_phase1 + errors
CombineErrors(total, phase1, errs) ==
    IF total = 0 /\ phase1 # <<>> THEN phase1 \o errs ELSE errs

\* faulty variant of CloseScraper: the reference is dropped without close()
DropScraper(opened, s) == opened

\* scraper.close() in a finally block
CloseScraper(opened, s) == opened \ {s}

\* faulty variant of NextMonthAfterFailure: a failed month ends the month loop
BreakAfterFailure(mi, months) == Len(months) + 1

\* except Exception: ... db.rollback()  -- the for loop goes on to the next month
NextMonthAfterFailure(mi, months) == mi + 1

\* faulty variant of RollbackBatch: a failed commit leaves its batch behind
KeepBatch(table, n) == table + n

\* db.rollback(): the month's uncommitted batch is discarded
RollbackBatch(table, n) == table

\* f"HTTP scraper error ({kind_lower}): {e}" / f"Playwright scraper error (...)"
KindError(phase, kind, e) ==
    IF phase = "A"
    THEN [src |-> "http", len |-> HttpKindPrefix + KindLen(kind) + e]
    ELSE [src |-> "playwright", len |-> BrowserKindPrefix + KindLen(kind) + e]

\* f"Playwright scraper failed: {e}"
BrowserFailError(e) == [src |-> "playwright", len |-> BrowserFailPrefix + e]

-----------------------------------------------------------------------------
(* Initial state: no Run, no task, no pipeline invocation *)

NoRun ==
    [exists |-> FALSE, status |-> "PENDING", records_loaded |-> 0,
     error_len |-> 0, started |-> FALSE, completed |-> FALSE]

IdleWorker ==
    [pc |-> "idle", phase |-> "A", scraper |-> "none", scraper_type |-> "http",
     kinds |-> <<>>, ki |-> 1, mi |-> 1, count |-> 0, total_loaded |-> 0,
     errors |-> <<>>, errors_phase1 |-> <<>>, expired |-> FALSE]

\* history of one invocation:
\*   opened/created    engines open now / created so far
\*   kindsTried        per phase: the kinds its loop has dispatched, in order
\*   entered/attempts  per phase: kinds whose month loop started / months tried
\*   loopDone          phases whose kind loop ran to its end
\*   monthsTried       months tried by the month loop entered last, in order
\*   lastMonth         how the month tried last ended
\*   allExhausted      every month tried so far yielded no rows or raised
\*   persisted         rows of this invocation that were committed
\*   committed         the status this invocation committed last
NoObs ==
    [opened |-> {}, created |-> <<>>, kindsTried |-> [A |-> <<>>, B |-> <<>>],
     entered |-> [A |-> 0, B |-> 0], attempts |-> [A |-> 0, B |-> 0],
     loopDone |-> {}, monthsTried |-> <<>>, lastMonth |-> "none", allExhausted |-> TRUE, storeFailed |-> FALSE,
     monthFailed |-> FALSE, httpYield |-> 0, httpDone |-> FALSE,
     browserInvoked |-> FALSE, persisted |-> 0, committed |-> "none",
     errorWritten |-> 0, fatal |-> FALSE]

\* the scraper-level variables while only the pipeline is being looked at
NoCall == [fn |-> "none"]
NoRawDir == [files |-> <<>>, job |-> <<>>]
NoPager == [engine |-> "none"]
NoFetch == [pc |-> "none"]
NoSect == [engine |-> "none"]
NoPortal == [pc |-> "none"]

ScraperIdle ==
    /\ call = NoCall
    /\ rawdir = NoRawDir
    /\ pager = NoPager
    /\ fetch = NoFetch
    /\ sect = NoSect
    /\ portal = NoPortal

Init ==
    /\ ScraperIdle
    /\ run = NoRun
    /\ req = [months |-> <<>>, kinds |-> <<>>]
    /\ rows = 0
    /\ writer = "none"
    /\ hpc = "init"
    /\ task = "none"
    /\ deliveries = 0
    /\ w = IdleWorker
    /\ obs = NoObs

-----------------------------------------------------------------------------
(* create_scrape_run: POST /scrape-runs *)

\* db.add(run); await db.commit(); await db.refresh(run)
HandlerCreate ==
    /\ hpc = "init"
    /\ \E ms \in MonthLists, ks \in KindLists :
          req' = [months |-> ms, kinds |-> ks]
    /\ run' = [NoRun EXCEPT !.exists = TRUE]
    /\ writer' = "handler"
    /\ hpc' = "created"
    /\ UNCHANGED <<scraperVars, rows, task, deliveries, w, obs>>

\* task = run_scrape_task.delay(run.id)
HandlerDispatch ==
    /\ hpc = "created"
    /\ task' = "queued"
    /\ hpc' = "dispatched"
    /\ UNCHANGED <<scraperVars, run, req, rows, writer, deliveries, w, obs>>

\* except Exception as e: run.status = FAILED; run.error_message = ...; commit
\* (the text of a broker or driver error is short)
HandlerWriteFailed(e) ==
    \/ /\ run' = [run EXCEPT !.status = "FAILED",
                             !.error_len = LaunchFailPrefix + e]
       /\ writer' = "handler"
    \/ UNCHANGED <<run, writer>>      \* this commit raises as well

\* run_scrape_task.delay raises: the except branch marks the Run FAILED
HandlerDispatchRaises ==
    /\ hpc = "created"
    /\ HandlerWriteFailed(ShortExc)
    /\ hpc' = "done"
    /\ UNCHANGED <<scraperVars, req, rows, task, deliveries, w, obs>>

\* run.celery_task_id = task.id; run.status = RUNNING; run.started_at = now; commit
HandlerMark ==
    /\ hpc = "dispatched"
    /\ run' = [run EXCEPT !.status = "RUNNING", !.started = TRUE]
    /\ writer' = "handler"
    /\ hpc' = "done"
    /\ UNCHANGED <<scraperVars, req, rows, task, deliveries, w, obs>>

\* the commit after the dispatch raises: the except branch marks the Run FAILED
HandlerMarkRaises ==
    /\ hpc = "dispatched"
    /\ HandlerWriteFailed(ShortExc)
    /\ hpc' = "done"
    /\ UNCHANGED <<scraperVars, req, rows, task, deliveries, w, obs>>

-----------------------------------------------------------------------------
(* run_scrape_task: delivery of the task message *)

PipelineEnded == w.pc \in {"returned", "raised"}

\* the worker acknowledges the message after the task body has run (acks_late)
TaskAck ==
    /\ task = "running"
    /\ PipelineEnded
    /\ task' = "acked"
    /\ UNCHANGED <<scraperVars, run, req, rows, writer, hpc, deliveries, w, obs>>

\* the acknowledgement is lost: the broker delivers the message again
TaskRedeliver ==
    /\ task = "running"
    /\ PipelineEnded
    /\ deliveries < MaxDeliveries
    /\ task' = "queued"
    /\ UNCHANGED <<scraperVars, run, req, rows, writer, hpc, deliveries, w, obs>>

-----------------------------------------------------------------------------
(* execute_scrape_pipeline: entry *)

\* run = db.get(...); if not run: return; status = RUNNING; commit; org_code = ...
PipelineStart ==
    /\ task = "queued"
    /\ task' = "running"
    /\ deliveries' = deliveries + 1
    /\ obs' = NoObs
    /\ IF ~run.exists
       THEN /\ w' = [IdleWorker EXCEPT !.pc = "returned"]
            /\ UNCHANGED <<run, writer>>
       ELSE /\ run' = [run EXCEPT !.status = "RUNNING", !.started = TRUE]
            /\ writer' = "worker"
            /\ w' = [IdleWorker EXCEPT !.pc = "phaseA"]
    /\ UNCHANGED <<scraperVars, req, rows, hpc>>

\* the first db.commit() raises: nothing is written, the exception leaves the task
PipelineStartCommitRaises ==
    /\ task = "queued"
    /\ run.exists
    /\ task' = "running"
    /\ deliveries' = deliveries + 1
    /\ obs' = NoObs
    /\ w' = [IdleWorker EXCEPT !.pc = "raised"]
    /\ UNCHANGED <<scraperVars, run, req, rows, writer, hpc>>

\* RUNNING is committed, then reading run.municipality_code (a refresh of the
\* expired row) or int() of it raises outside the try block
PipelineOrgCodeRaises ==
    /\ task = "queued"
    /\ run.exists
    /\ task' = "running"
    /\ deliveries' = deliveries + 1
    /\ obs' = NoObs
    /\ run' = [run EXCEPT !.status = "RUNNING", !.started = TRUE]
    /\ writer' = "worker"
    /\ w' = [IdleWorker EXCEPT !.pc = "raised"]
    /\ UNCHANGED <<scraperVars, req, rows, hpc>>

-----------------------------------------------------------------------------
(* execute_scrape_pipeline: Phase 1 (HTTP) and Phase 2 (Playwright) *)

InKindLoop == w.pc = "kind" /\ w.ki <= Len(w.kinds)
KindLower == Lower(w.kinds[w.ki])
InMonthLoop == w.pc = "month" /\ w.mi <= Len(req.months)
Month == req.months[w.mi]

\* scraper = _create_scraper(org_code, use_http=True); kinds = ...
HttpCreate ==
    /\ w.pc = "phaseA"
    /\ w' = [w EXCEPT !.scraper = "http", !.kinds = KindsOrDefault(req.kinds),
                      !.ki = 1, !.pc = "kind"]
    /\ obs' = [obs EXCEPT !.opened = @ \cup {"http"},
                          !.created = Append(@, "http")]
    /\ UNCHANGED <<scraperVars, run, req, rows, writer, hpc, task, deliveries>>

\* HTTPScraper(...) raises: except logs, finally finds scraper None
HttpCreateRaises ==
    /\ w.pc = "phaseA"
    /\ w' = [w EXCEPT !.pc = "fallback"]
    /\ obs' = [obs EXCEPT !.httpDone = TRUE]
    /\ UNCHANGED <<scraperVars, run, req, rows, writer, hpc, task, deliveries>>

\* _scrape_honorarios / _scrape_contrata / _scrape_planta is entered:
\* count = 0; for month in run.months
KindEnter ==
    /\ InKindLoop
    /\ KindLower \in RecordKinds
    /\ w' = [w EXCEPT !.count = 0, !.mi = 1, !.pc = "month", !.expired = FALSE]
    /\ obs' = [obs EXCEPT !.kindsTried[w.phase] = Append(@, KindLower),
                          !.entered[w.phase] = @ + 1,
                          !.monthsTried = <<>>]
    /\ UNCHANGED <<scraperVars, run, req, rows, writer, hpc, task, deliveries>>

\* reading run.months refreshes the expired row and raises: the per-kind
\* except records the error and continues with the next kind
KindMonthsLoadRaises ==
    /\ InKindLoop
    /\ KindLower \in RecordKinds
    /\ w.expired
    /\ \E e \in ExcLens :
          w' = [w EXCEPT !.errors = Append(@, KindError(w.phase, KindLower, e)),
                         !.ki = @ + 1]
    /\ obs' = [obs EXCEPT !.kindsTried[w.phase] = Append(@, KindLower)]
    /\ UNCHANGED <<scraperVars, run, req, rows, writer, hpc, task, deliveries>>

\* "escalas" (_scrape_escalas swallows its errors) or a kind no branch matches
KindWithoutRecords ==
    /\ InKindLoop
    /\ KindLower \notin RecordKinds
    /\ w' = [w EXCEPT !.ki = @ + 1]
    /\ obs' = [obs EXCEPT !.kindsTried[w.phase] = Append(@, KindLower)]
    /\ UNCHANGED <<scraperVars, run, req, rows, writer, hpc, task, deliveries>>

\* one month: the engine returns n records, each is added and counted, commit
MonthStored ==
    /\ InMonthLoop
    /\ \E n \in BatchSizes :
          /\ w' = [w EXCEPT !.count = @ + n, !.mi = @ + 1, !.expired = TRUE]
          /\ rows' = rows + n
          /\ obs' = [obs EXCEPT
                !.attempts[w.phase] = @ + 1,
                !.monthsTried = Append(@, Month),
                !.lastMonth = "stored",
                !.allExhausted = @ /\ n = 0,
                !.httpYield = IF w.phase = "A" THEN @ + n ELSE @,
                !.persisted = @ + n]
    /\ UNCHANGED <<scraperVars, run, req, writer, hpc, task, deliveries>>

\* one month: the records are added and counted, db.commit() raises,
\* the except block logs and rolls back; the loop goes on
MonthCommitRaises ==
    /\ InMonthLoop
    /\ \E n \in BatchSizes :
          /\ w' = [w EXCEPT !.count = @ + n,
                            !.mi = NextMonthAfterFailure(w.mi, req.months),
                            !.expired = TRUE]
          /\ rows' = RollbackBatch(rows, n)
          /\ obs' = [obs EXCEPT
                !.attempts[w.phase] = @ + 1,
                !.monthsTried = Append(@, Month),
                !.httpYield = IF w.phase = "A" THEN @ + n ELSE @,
                !.lastMonth = "commit_raised",
                !.storeFailed = TRUE,
                !.monthFailed = TRUE]
    /\ UNCHANGED <<scraperVars, run, req, writer, hpc, task, deliveries>>

\* one month: the refresh of the expired run row raises before the engine is
\* called; the except block logs and rolls back; the loop goes on
MonthLoadRaises ==
    /\ InMonthLoop
    /\ w.expired
    /\ w' = [w EXCEPT !.mi = NextMonthAfterFailure(w.mi, req.months)]
    /\ obs' = [obs EXCEPT !.attempts[w.phase] = @ + 1,
                          !.monthsTried = Append(@, Month),
                          !.lastMonth = "load_raised",
                          !.monthFailed = TRUE]
    /\ UNCHANGED <<scraperVars, run, req, rows, writer, hpc, task, deliveries>>

\* return count; total_loaded += count
MonthsDone ==
    /\ w.pc = "month"
    /\ w.mi > Len(req.months)
    /\ w' = [w EXCEPT !.total_loaded = @ + w.count, !.ki = @ + 1, !.pc = "kind"]
    /\ UNCHANGED <<scraperVars, run, req, rows, writer, hpc, task, deliveries, obs>>

\* end of the Phase 1 loop; finally: scraper.close(); scraper = None
HttpPhaseEnd ==
    /\ w.pc = "kind"
    /\ w.phase = "A"
    /\ w.ki > Len(w.kinds)
    /\ w' = [w EXCEPT !.scraper = "none", !.pc = "fallback"]
    /\ obs' = [obs EXCEPT !.opened = CloseScraper(@, "http"), !.httpDone = TRUE,
                          !.loopDone = @ \cup {"A"}]
    /\ UNCHANGED <<scraperVars, run, req, rows, writer, hpc, task, deliveries>>

\* if total_loaded == 0: scraper_type = "playwright"; errors_phase1 = errors
FallbackToBrowser ==
    /\ w.pc = "fallback"
    /\ ShouldFallback(w.total_loaded)
    /\ w' = [w EXCEPT !.scraper_type = "playwright", !.errors_phase1 = w.errors,
                      !.errors = <<>>, !.phase = "B", !.pc = "phaseB"]
    /\ UNCHANGED <<scraperVars, run, req, rows, writer, hpc, task, deliveries, obs>>

\* total_loaded > 0: Phase 2 is skipped
SkipFallback ==
    /\ w.pc = "fallback"
    /\ ~ShouldFallback(w.total_loaded)
    /\ w' = [w EXCEPT !.pc = "finalize"]
    /\ UNCHANGED <<scraperVars, run, req, rows, writer, hpc, task, deliveries, obs>>

\* scraper = _create_scraper(org_code, use_http=False); kinds = ...
BrowserCreate ==
    /\ w.pc = "phaseB"
    /\ w' = [w EXCEPT !.scraper = "playwright",
                      !.kinds = KindsOrDefault(req.kinds),
                      !.ki = 1, !.pc = "kind", !.expired = FALSE]
    /\ obs' = [obs EXCEPT !.opened = @ \cup {"playwright"},
                          !.created = Append(@, "playwright"),
                          !.browserInvoked = TRUE]
    /\ UNCHANGED <<scraperVars, run, req, rows, writer, hpc, task, deliveries>>

\* PortalScraper(...) raises: "Playwright scraper failed", errors combined
BrowserCreateRaises ==
    /\ w.pc = "phaseB"
    /\ \E e \in ExcLens :
          w' = [w EXCEPT
                !.errors = CombineErrors(w.total_loaded, w.errors_phase1,
                                         Append(w.errors, BrowserFailError(e))),
                !.pc = "finalize"]
    /\ obs' = [obs EXCEPT !.browserInvoked = TRUE]
    /\ UNCHANGED <<scraperVars, run, req, rows, writer, hpc, task, deliveries>>

\* PortalScraper is created, then reading run.contract_types refreshes the
\* expired row and raises: same except block, the scraper stays referenced
BrowserKindsLoadRaises ==
    /\ w.pc = "phaseB"
    /\ w.expired
    /\ \E e \in ExcLens :
          w' = [w EXCEPT
                !.scraper = "playwright",
                !.errors = CombineErrors(w.total_loaded, w.errors_phase1,
                                         Append(w.errors, BrowserFailError(e))),
                !.pc = "finalize"]
    /\ obs' = [obs EXCEPT !.opened = @ \cup {"playwright"},
                          !.created = Append(@, "playwright"),
                          !.browserInvoked = TRUE]
    /\ UNCHANGED <<scraperVars, run, req, rows, writer, hpc, task, deliveries>>

\* end of the Phase 2 loop; errors of both phases are combined if both failed
BrowserPhaseEnd ==
    /\ w.pc = "kind"
    /\ w.phase = "B"
    /\ w.ki > Len(w.kinds)
    /\ w' = [w EXCEPT
             !.errors = CombineErrors(w.total_loaded, w.errors_phase1, w.errors),
             !.pc = "finalize"]
    /\ obs' = [obs EXCEPT !.loopDone = @ \cup {"B"}]
    /\ UNCHANGED <<scraperVars, run, req, rows, writer, hpc, task, deliveries>>

-----------------------------------------------------------------------------
(* execute_scrape_pipeline: final status, fatal handler, release *)

\* outer finally: if scraper: scraper.close()
ReleaseScraper(opened, s) == IF s = "none" THEN opened ELSE CloseScraper(opened, s)

\* an exception with its text and its formatted traceback (which holds the text)
Exceptions == {[len |-> e, tb |-> e + extra] : e \in ExcLens, extra \in ExcLens}

\* status, records_loaded, completed_at, error_message are set and committed
Finalize ==
    /\ w.pc = "finalize"
    /\ LET st == FinalStatus(w.total_loaded, w.errors)
           el == IF w.errors # <<>> THEN JoinedErrorLen(w.errors) ELSE run.error_len
       IN  /\ run' = [run EXCEPT !.status = st,
                                 !.records_loaded = w.total_loaded,
                                 !.completed = TRUE,
                                 !.error_len = el]
           /\ obs' = [obs EXCEPT !.committed = st,
                                 !.errorWritten = JoinedErrorLen(w.errors)]
    /\ writer' = "worker"
    /\ w' = [w EXCEPT !.pc = "log", !.expired = TRUE]
    /\ UNCHANGED <<scraperVars, req, rows, hpc, task, deliveries>>

\* the final db.commit() raises: the transaction is rolled back, the
\* exception reaches the outer except block
FinalizeCommitRaises ==
    /\ w.pc = "finalize"
    /\ w' = [w EXCEPT !.pc = "fatal", !.expired = TRUE]
    /\ obs' = [obs EXCEPT !.fatal = TRUE]
    /\ UNCHANGED <<scraperVars, run, req, rows, writer, hpc, task, deliveries>>

\* logger.info(run.status.value ...); return {...}; finally: close
PipelineReturn ==
    /\ w.pc = "log"
    /\ w' = [IdleWorker EXCEPT !.pc = "returned"]
    /\ obs' = [obs EXCEPT !.opened = ReleaseScraper(@, w.scraper)]
    /\ UNCHANGED <<scraperVars, run, req, rows, writer, hpc, task, deliveries>>

\* reading run.status after the commit refreshes the expired row and raises
ReturnRefreshRaises ==
    /\ w.pc = "log"
    /\ w' = [w EXCEPT !.pc = "fatal"]
    /\ obs' = [obs EXCEPT !.fatal = TRUE]
    /\ UNCHANGED <<scraperVars, run, req, rows, writer, hpc, task, deliveries>>

\* except Exception: status = FAILED; error_message = ...; completed_at; commit;
\* return; finally: close
FatalHandler ==
    /\ w.pc = "fatal"
    /\ \E x \in Exceptions :
          /\ run' = [run EXCEPT !.status = "FAILED",
                                !.error_len = FatalErrorLen(x.len, x.tb),
                                !.completed = TRUE]
          /\ obs' = [obs EXCEPT !.opened = ReleaseScraper(@, w.scraper),
                                !.committed = "FAILED",
                                !.errorWritten = FatalErrorLen(x.len, x.tb)]
    /\ writer' = "worker"
    /\ w' = [IdleWorker EXCEPT !.pc = "returned"]
    /\ UNCHANGED <<scraperVars, req, rows, hpc, task, deliveries>>

\* the commit inside the except block raises too: the exception leaves the
\* function through the finally block
FatalCommitRaises ==
    /\ w.pc = "fatal"
    /\ w' = [IdleWorker EXCEPT !.pc = "raised"]
    /\ obs' = [obs EXCEPT !.opened = ReleaseScraper(@, w.scraper)]
    /\ UNCHANGED <<scraperVars, run, req, rows, writer, hpc, task, deliveries>>

-----------------------------------------------------------------------------

Next ==
    \/ HandlerCreate
    \/ HandlerDispatch
    \/ HandlerDispatchRaises
    \/ HandlerMark
    \/ HandlerMarkRaises
    \/ TaskAck
    \/ PipelineStart
    \/ PipelineStartCommitRaises
    \/ PipelineOrgCodeRaises
    \/ HttpCreate
    \/ HttpCreateRaises
    \/ KindEnter
    \/ KindMonthsLoadRaises
    \/ KindWithoutRecords
    \/ MonthStored
    \/ MonthCommitRaises
    \/ MonthLoadRaises
    \/ MonthsDone
    \/ HttpPhaseEnd
    \/ FallbackToBrowser
    \/ SkipFallback
    \/ BrowserCreate
    \/ BrowserCreateRaises
    \/ BrowserKindsLoadRaises
    \/ BrowserPhaseEnd
    \/ Finalize
    \/ FinalizeCommitRaises
    \/ PipelineReturn
    \/ ReturnRefreshRaises
    \/ FatalHandler
    \/ FatalCommitRaises

Spec == Init /\ [][Next]_vars

-----------------------------------------------------------------------------
(* One execution of execute_scrape_pipeline, for every request: the handler
   has created the Run, dispatched the task and marked the Run RUNNING. *)

InitPipeline ==
    /\ ScraperIdle
    /\ \E ms \in MonthLists, ks \in KindLists :
          req = [months |-> ms, kinds |-> ks]
    /\ run = [NoRun EXCEPT !.exists = TRUE, !.status = "RUNNING", !.started = TRUE]
    /\ rows = 0
    /\ writer = "handler"
    /\ hpc = "done"
    /\ task = "queued"
    /\ deliveries = 0
    /\ w = IdleWorker
    /\ obs = NoObs

NextPipeline ==
    \/ TaskAck
    \/ PipelineStart
    \/ PipelineStartCommitRaises
    \/ PipelineOrgCodeRaises
    \/ HttpCreate
    \/ HttpCreateRaises
    \/ KindEnter
    \/ KindMonthsLoadRaises
    \/ KindWithoutRecords
    \/ MonthStored
    \/ MonthCommitRaises
    \/ MonthLoadRaises
    \/ MonthsDone
    \/ HttpPhaseEnd
    \/ FallbackToBrowser
    \/ SkipFallback
    \/ BrowserCreate
    \/ BrowserCreateRaises
    \/ BrowserKindsLoadRaises
    \/ BrowserPhaseEnd
    \/ Finalize
    \/ FinalizeCommitRaises
    \/ PipelineReturn
    \/ ReturnRefreshRaises
    \/ FatalHandler
    \/ FatalCommitRaises

SpecPipeline == InitPipeline /\ [][NextPipeline]_vars

-----------------------------------------------------------------------------
(* Successive executions of execute_scrape_pipeline for the same Run: the
   broker delivers the task message again when its acknowledgement is lost. *)

NextRedelivery ==
    \/ NextPipeline
    \/ TaskRedeliver

SpecRedelivery == InitPipeline /\ [][NextRedelivery]_vars

-----------------------------------------------------------------------------
(* Properties of the pipeline *)

Phases == {"A", "B"}
LowerAll(ks) == [i \in 1..Len(ks) |-> Lower(ks[i])]
RecordKindCount(ks) == Cardinality({i \in 1..Len(ks) : Lower(ks[i]) \in RecordKinds})
StatusCommitted == obs.committed # "none"

\* C1: the Browser engine is invoked if and only if the HTTP phase yielded no
\* record over all requested kinds: it is never invoked once the HTTP engine
\* yielded a record, and when the HTTP engine yielded none it has been invoked
\* before the pipeline commits a final status (Failed included).
C1_EngineFallback ==
    /\ obs.browserInvoked => (obs.httpDone /\ obs.httpYield = 0)
    /\ obs.httpYield > 0 => "playwright" \notin obs.opened
    /\ (StatusCommitted /\ obs.httpYield = 0) => obs.browserInvoked

\* C1 witness: the HTTP phase yielded nothing, the Browser engine was invoked,
\* and after that the Run was committed as Failed
C1_Witness ==
    /\ obs.httpDone
    /\ obs.httpYield = 0
    /\ obs.browserInvoked
    /\ obs.committed = "FAILED"
    /\ run.status = "FAILED"

\* C2: over successive executions of the pipeline for one Run, a status
\* Completed or Failed that the pipeline committed never changes again.
C2_StatusOneWay ==
    [][(run.status \in Terminal /\ writer = "worker") => run'.status = run.status]_vars

\* C3: a Completed or Failed status committed by the worker is never
\* overwritten by the request handler's RUNNING write.
C3_HandlerNeverOverwrites ==
    [][(run.status \in Terminal /\ writer = "worker")
          => ~(writer' = "handler" /\ run'.status = "RUNNING")]_vars

\* C4: right after the final commit of an execution that met no fatal
\* exception, the Run is Completed if total_loaded > 0 or the error list is
\* empty, and Failed otherwise; it is nothing else.
C4_FinalStatus ==
    w.pc = "log" =>
        /\ run.status \in Terminal
        /\ run.status = "COMPLETED" <=> (w.total_loaded > 0 \/ Len(w.errors) = 0)
        /\ run.status = "FAILED" <=> (w.total_loaded = 0 /\ Len(w.errors) > 0)

\* C4 witness: a final commit with zero records and a recorded error
C4_Witness ==
    /\ w.pc = "log"
    /\ w.total_loaded = 0
    /\ Len(w.errors) > 0
    /\ run.status = "FAILED"

\* C5: when the pipeline has ended a Run, records_loaded equals the number of
\* committed rows tagged with the run id.
C5_RecordsLoadedExact ==
    (w.pc = "returned" /\ StatusCommitted) => run.records_loaded = rows

\* every requested record kind x month was tried in both engines and none
\* of them produced rows
AllExhaustedInBothEngines ==
    /\ obs.loopDone = Phases
    /\ obs.allExhausted
    /\ RecordKindCount(req.kinds) > 0
    /\ Len(req.months) > 0
    /\ \A p \in Phases :
          obs.attempts[p] = RecordKindCount(req.kinds) * Len(req.months)

\* C6: a run in which every kind x month is exhausted in both engines ends
\* Failed with a non-empty error text.
C6_ExhaustionFails ==
    (w.pc = "returned" /\ StatusCommitted /\ AllExhaustedInBothEngines)
        => (run.status = "FAILED" /\ run.error_len > 0)

\* C7: a month that fails (the step raises, or storing it raises) does not
\* end its phase: when a phase's kind loop has ended, every requested kind
\* was dispatched in order, every month loop that was entered tried every
\* month, and each month loop left so far tried the months of the run in order.
C7_FailureDoesNotAbortPhase ==
    /\ \A p \in Phases :
          p \in obs.loopDone =>
              /\ obs.kindsTried[p] = LowerAll(KindsOrDefault(req.kinds))
              /\ obs.attempts[p] = obs.entered[p] * Len(req.months)
    /\ (w.pc = "kind" /\ obs.entered[w.phase] > 0) => obs.monthsTried = req.months

\* C7 witness: months failed in a phase of several kinds and months, and the
\* phase still tried all of them
C7_Witness ==
    /\ "B" \in obs.loopDone
    /\ obs.monthFailed
    /\ obs.storeFailed
    /\ obs.entered["B"] > 1
    /\ Len(req.months) > 1
    /\ obs.attempts["B"] = obs.entered["B"] * Len(req.months)

StoreFailureStep ==
    /\ obs'.lastMonth = "commit_raised"
    /\ obs'.attempts # obs.attempts

C9_ErrorTextCapped == obs.errorWritten <= ErrorCap

\* C10: at most one engine is open at any time, the HTTP engine is closed
\* before the Browser engine is created, and no engine is open once
\* execute_scrape_pipeline has returned or raised.
C10_EnginesClosed ==
    /\ Cardinality(obs.opened) <= 1
    /\ w.pc = "phaseB" => obs.opened = {}
    /\ PipelineEnded => obs.opened = {}

\* C10 witness: both engines were created and the function left through the
\* fatal handler whose commit raised
C10_Witness ==
    /\ w.pc = "raised"
    /\ obs.created = <<"http", "playwright">>
    /\ obs.fatal
    /\ obs.opened = {}

-----------------------------------------------------------------------------
(* The pipeline-level variables while a scraper or a function of
   column_mapping.py is looked at on its own. *)

PipelineIdle ==
    /\ run = NoRun
    /\ req = [months |-> <<>>, kinds |-> <<>>]
    /\ rows = 0
    /\ writer = "none"
    /\ hpc = "init"
    /\ task = "none"
    /\ deliveries = 0
    /\ w = IdleWorker
    /\ obs = NoObs

-----------------------------------------------------------------------------
(* The raw download directory: Path(DATA_DIR) / "raw" / org_code, written
   by _try_csv_download (HTTP engine) and _try_download_csv (Browser engine)
   of every Run that executes, in whatever worker process. *)

RunIds == {"r1", "r2"}
OrgCodes == {"MU001", "MU280"}
Areas == {"Salud", "Educacion"}
Sections == {"honorarios", "contrata"}
Engines == {"http", "playwright"}
Extensions == {"csv", "xlsx"}
Years == {2024, 2025}

\* what one Run asks its engine for
Jobs ==
    [org : OrgCodes, area : Areas, section : Sections, year : Years,
     month : 1..MaxMonths, engine : Engines]

\* self.raw_dir / f"{section}_{year}_{month:02d}_http.{ext}" for the HTTP
\* engine, self.raw_dir / f"{section_name}_{year}_{month:02d}.{ext}" for the
\* Browser engine; raw_dir is DATA_DIR/raw/<org_code> in both
FilePath(j, ext) ==
    [dir |-> j.org, section |-> j.section, year |-> j.year, month |-> j.month,
     suffix |-> IF j.engine = "http" THEN "_http" ELSE "", ext |-> ext]

FilePaths == {FilePath(j, e) : j \in Jobs, e \in Extensions}

InitRawDir ==
    /\ PipelineIdle
    /\ call = NoCall
    /\ pager = NoPager
    /\ fetch = NoFetch
    /\ sect = NoSect
    /\ portal = NoPortal
    /\ \E j1, j2 \in Jobs :
          rawdir = [files |-> [p \in FilePaths |-> "absent"],
                    job |-> [r \in RunIds |->
                               [params |-> IF r = "r1" THEN j1 ELSE j2,
                                pc |-> "page", path |-> "none",
                                parsed |-> "nothing"]]]

\* file_path.write_bytes(resp.content) / download.save_as(str(file_path)):
\* the file now holds what Run r downloaded
DownloadWrite(r) ==
    /\ rawdir.job[r].pc = "page"
    /\ \E ext \in Extensions :
          LET p == FilePath(rawdir.job[r].params, ext) IN
          rawdir' = [rawdir EXCEPT !.files[p] = r,
                                   !.job[r].pc = "written",
                                   !.job[r].path = p]
    /\ UNCHANGED <<pipelineVars, call, pager, fetch, sect, portal>>

\* records = self._parse_csv(file_path): reads whatever the file holds now
ParseCsv(r) ==
    /\ rawdir.job[r].pc = "written"
    /\ rawdir' = [rawdir EXCEPT !.job[r].pc = "parsed",
                                !.job[r].parsed = rawdir.files[rawdir.job[r].path]]
    /\ UNCHANGED <<pipelineVars, call, pager, fetch, sect, portal>>

NextRawDir == \E r \in RunIds : DownloadWrite(r) \/ ParseCsv(r)

SpecRawDir == InitRawDir /\ [][NextRawDir]_vars

-----------------------------------------------------------------------------
(* Properties of the raw download directory *)

\* C11: the content a Run parses (and then persists) is the content this Run
\* itself downloaded, whatever another Run does at the same time.
C11_ParsesOwnDownload ==
    \A r \in RunIds :
        rawdir.job[r].pc = "parsed" => rawdir.job[r].parsed = r

-----------------------------------------------------------------------------
(* Extraction of a paginated table: lines 816-843 of _scrape_section for the
   HTTP engine, _extract_table_data for the Browser engine.  The table has
   MaxPages pages with distinct rows.  URL 0 is base_url, the section URL
   that shows page 1; URL p is the pagination link "?page=p" that shows
   page p.  pager.appended[p] counts how often the rows of page p were
   appended to the result. *)

Pages == 1..MaxPages
Urls == 0..MaxPages
PageOf(u) == IF u = 0 THEN 1 ELSE u

\* _handle_pagination returns the links of a page without repetition
LinkLists == {l \in SeqsUpTo(Urls, MaxLinks) : NoRepeat(l)}

RECURSIVE AppendUnvisited(_, _, _)
\* for mu in more_urls: if mu not in visited: next_urls.append(mu)
AppendUnvisited(next_urls, more_urls, visited) ==
    IF more_urls = <<>> THEN next_urls
    ELSE AppendUnvisited(
             IF Head(more_urls) \in visited THEN next_urls
             ELSE Append(next_urls, Head(more_urls)),
             Tail(more_urls), visited)

StartPager(engine, links) ==
    [engine |-> engine, pc |-> "start", links |-> links,
     appended |-> [p \in Pages |-> 0], visited |-> {}, next_urls |-> <<>>,
     idx |-> 1, attempt |-> 0, timeouts |-> 0, shown |-> 1, page_num |-> 0]

InitPagination ==
    /\ PipelineIdle
    /\ call = NoCall
    /\ rawdir = NoRawDir
    /\ fetch = NoFetch
    /\ sect = NoSect
    /\ portal = NoPortal
    /\ \/ \E links \in [Pages -> LinkLists] : pager = StartPager("http", links)
       \/ pager = StartPager("playwright", [p \in Pages |-> <<>>])

\* records = self._parse_html_table(soup, section); next_urls =
\* self._handle_pagination(soup, base_url); visited = {base_url}
HttpFirstPage ==
    /\ pager.engine = "http" /\ pager.pc = "start"
    /\ pager' = [pager EXCEPT !.pc = "loop", !.appended[1] = 1,
                              !.next_urls = pager.links[1], !.visited = {0}]
    /\ UNCHANGED <<pipelineVars, call, rawdir, fetch, sect, portal>>

\* if next_url in visited: continue
HttpSkipVisited ==
    /\ pager.engine = "http" /\ pager.pc = "loop"
    /\ pager.idx <= Len(pager.next_urls)
    /\ pager.next_urls[pager.idx] \in pager.visited
    /\ pager' = [pager EXCEPT !.idx = @ + 1]
    /\ UNCHANGED <<pipelineVars, call, rawdir, fetch, sect, portal>>

\* visited.add(next_url); next_html = self._get_html(next_url)
HttpRequestPage ==
    /\ pager.engine = "http" /\ pager.pc = "loop"
    /\ pager.idx <= Len(pager.next_urls)
    /\ pager.next_urls[pager.idx] \notin pager.visited
    /\ pager' = [pager EXCEPT !.pc = "get", !.attempt = 1,
                              !.visited = @ \cup {pager.next_urls[pager.idx]}]
    /\ UNCHANGED <<pipelineVars, call, rawdir, fetch, sect, portal>>

\* _get_with_retry: the attempt times out; after MAX_RETRIES attempts the
\* result is None and the page loop breaks with the records read so far
HttpGetTimeout ==
    /\ pager.engine = "http" /\ pager.pc = "get"
    /\ pager' = IF pager.attempt < MAX_RETRIES
                THEN [pager EXCEPT !.attempt = @ + 1, !.timeouts = @ + 1]
                ELSE [pager EXCEPT !.pc = "done", !.timeouts = @ + 1]
    /\ UNCHANGED <<pipelineVars, call, rawdir, fetch, sect, portal>>

\* the attempt answers 200: records.extend(page_records) and the links of
\* the page that are not visited are appended to next_urls
HttpGetPage ==
    /\ pager.engine = "http" /\ pager.pc = "get"
    /\ LET u == pager.next_urls[pager.idx]
           p == PageOf(u)
       IN  pager' = [pager EXCEPT
                       !.pc = "loop", !.idx = @ + 1,
                       !.appended[p] = @ + 1,
                       !.next_urls = AppendUnvisited(@, pager.links[p],
                                                     pager.visited)]
    /\ UNCHANGED <<pipelineVars, call, rawdir, fetch, sect, portal>>

\* return self._normalize(records, section)
HttpPagesDone ==
    /\ pager.engine = "http" /\ pager.pc = "loop"
    /\ pager.idx > Len(pager.next_urls)
    /\ pager' = [pager EXCEPT !.pc = "done"]
    /\ UNCHANGED <<pipelineVars, call, rawdir, fetch, sect, portal>>

\* page_records = self._extract_rows(table, headers);
\* all_records.extend(page_records)
BrowserExtractRows ==
    /\ pager.engine = "playwright" /\ pager.pc \in {"start", "table"}
    /\ pager.page_num < max_pages
    /\ pager' = [pager EXCEPT !.pc = "click", !.appended[pager.shown] = @ + 1]
    /\ UNCHANGED <<pipelineVars, call, rawdir, fetch, sect, portal>>

\* for page_num in range(max_pages) is exhausted
BrowserPagesExhausted ==
    /\ pager.engine = "playwright" /\ pager.pc = "table"
    /\ pager.page_num >= max_pages
    /\ pager' = [pager EXCEPT !.pc = "done"]
    /\ UNCHANGED <<pipelineVars, call, rawdir, fetch, sect, portal>>

\* if not self._click_next_page(): break
BrowserNoNext ==
    /\ pager.engine = "playwright" /\ pager.pc = "click"
    /\ pager' = [pager EXCEPT !.pc = "done"]
    /\ UNCHANGED <<pipelineVars, call, rawdir, fetch, sect, portal>>

\* _click_next_page clicks and the portal shows the following page
BrowserNextAdvances ==
    /\ pager.engine = "playwright" /\ pager.pc = "click"
    /\ pager.shown < MaxPages
    /\ pager' = [pager EXCEPT !.pc = "table", !.shown = @ + 1,
                              !.page_num = @ + 1]
    /\ UNCHANGED <<pipelineVars, call, rawdir, fetch, sect, portal>>

\* _click_next_page clicks a visible, enabled 'next' control and returns
\* True, but the portal keeps showing the same page
BrowserNextStays ==
    /\ pager.engine = "playwright" /\ pager.pc = "click"
    /\ pager' = [pager EXCEPT !.pc = "table", !.page_num = @ + 1]
    /\ UNCHANGED <<pipelineVars, call, rawdir, fetch, sect, portal>>

NextPagination ==
    \/ HttpFirstPage
    \/ HttpSkipVisited
    \/ HttpRequestPage
    \/ HttpGetTimeout
    \/ HttpGetPage
    \/ HttpPagesDone
    \/ BrowserExtractRows
    \/ BrowserPagesExhausted
    \/ BrowserNoNext
    \/ BrowserNextAdvances
    \/ BrowserNextStays

SpecPagination == InitPagination /\ [][NextPagination]_vars

-----------------------------------------------------------------------------
(* Properties of the paginated extraction *)

\* C12: the rows of no page are appended to the result of one extraction
\* more than once, whatever the pagination links, the timeouts and the
\* effect of activating 'next'.
C12_EachRowOnce ==
    \A p \in Pages : pager.appended[p] <= 1

-----------------------------------------------------------------------------
(* column_mapping.py.  A text is a sequence of characters; the variable
   call holds one invocation: the function, its argument, whether it has
   returned, and what it returned. *)

Call(fn, arg) == [fn |-> fn, arg |-> arg, done |-> FALSE, out |-> <<>>]

Returned(fn) == call.fn = fn /\ call.done

RECURSIVE SumOver(_, _, _)
\* sum of f[k] for k in 1..n
SumOver(f, n, acc) == IF n = 0 THEN acc ELSE SumOver(f, n - 1, acc + f[n])

-----------------------------------------------------------------------------
(* extract_headers_with_colspan.  A header cell has a text and a colspan
   attribute that is missing, an integer literal or some other text.  A
   header string is the cell text (n = 1) or "{text} (n)". *)

\* the text of the i-th <th>: neighbouring cells have different texts
HeaderTextAt(i) == IF i % 2 = 1 THEN "Nombre" ELSE "Monto"

ColspanAttrs ==
    {[kind |-> "missing", n |-> 0], [kind |-> "text", n |-> 0]}
        \cup {[kind |-> "int", n |-> k] : k \in -1..MaxColspan}

\* the <th> cells of a header row with the given colspan attributes
HeaderCells(attrs) ==
    [i \in 1..Len(attrs) |-> [text |-> HeaderTextAt(i), colspan |-> attrs[i]]]

\* try: colspan = int(cell.get("colspan", 1))
\* except (ValueError, TypeError): colspan = 1
ColspanOf(cell) == IF cell.colspan.kind = "int" THEN cell.colspan.n ELSE 1

\* faulty variant of NumberedHeader: the numbering starts at i
NumberedHeaderFromOne(text, i) == [text |-> text, n |-> i]

\* f"{text} ({i + 1})"
NumberedHeader(text, i) == [text |-> text, n |-> i + 1]

RECURSIVE PadHeaders(_, _, _, _)
\* for i in range(1, colspan): headers.append(f"{text} ({i + 1})")
PadHeaders(headers, text, i, colspan) ==
    IF i >= colspan THEN headers
    ELSE PadHeaders(Append(headers, NumberedHeader(text, i)), text, i + 1, colspan)

RECURSIVE ExtractHeaders(_, _)
\* for cell in header_cells: headers.append(text); pad
ExtractHeaders(headers, cells) ==
    IF cells = <<>> THEN headers
    ELSE ExtractHeaders(
             PadHeaders(Append(headers, [text |-> Head(cells).text, n |-> 1]),
                        Head(cells).text, 1, ColspanOf(Head(cells))),
             Tail(cells))

extract_headers_with_colspan(header_cells) == ExtractHeaders(<<>>, header_cells)

CallExtractHeaders ==
    /\ call.fn = "extract_headers_with_colspan" /\ ~call.done
    /\ call' = [call EXCEPT !.done = TRUE,
                            !.out = extract_headers_with_colspan(call.arg)]
    /\ UNCHANGED <<pipelineVars, rawdir, pager, fetch, sect, portal>>

-----------------------------------------------------------------------------
(* normalize_header.  Characters: "a'" and "A'" are the precomposed letters
   with an acute accent, "'" is the combining acute accent, "TAB" is a tab. *)

HeaderChars == {"a", "A", "a'", "A'", "'", "b", ".", "_", " "}

IsSpace(c) == c \in {" ", "TAB"}

RECURSIVE Flatten(_)
Flatten(ss) == IF ss = <<>> THEN <<>> ELSE Head(ss) \o Flatten(Tail(ss))

\* unicodedata.normalize("NFKD", text), one character
DecomposeChar(c) ==
    CASE c = "a'" -> <<"a", "'">>
      [] c = "A'" -> <<"A", "'">>
      [] OTHER -> <<c>>

NFKD(text) == Flatten([i \in 1..Len(text) |-> DecomposeChar(text[i])])

IsCombining(c) == c = "'"
NotCombining(c) == ~IsCombining(c)

\* faulty variant of StripCombining: the accents stay
KeepCombining(text) == text

\* "".join(c for c in nfkd if not unicodedata.combining(c))
StripCombining(text) == SelectSeq(text, NotCombining)

\* str.lower(), one character
LowerChar(c) ==
    LET upper == <<"A", "B", "C", "D", "E", "F", "G", "H", "I", "J", "K", "L", "M",
                   "N", "O", "P", "Q", "R", "S", "T", "U", "V", "W", "X", "Y", "Z">>
        lower == <<"a", "b", "c", "d", "e", "f", "g", "h", "i", "j", "k", "l", "m",
                   "n", "o", "p", "q", "r", "s", "t", "u", "v", "w", "x", "y", "z">>
    IN  IF \E i \in 1..26 : upper[i] = c
        THEN lower[CHOOSE i \in 1..26 : upper[i] = c]
        ELSE IF c = "A'" THEN "a'" ELSE c

LowerText(text) == [i \in 1..Len(text) |-> LowerChar(text[i])]

\* result.replace(".", " ").replace("_", " ")
DotsToSpaces(text) ==
    [i \in 1..Len(text) |-> IF text[i] \in {".", "_"} THEN " " ELSE text[i]]

RECURSIVE CollapseSpaces(_)
\* re.sub(r"\s+", " ", result)
CollapseSpaces(text) ==
    IF text = <<>> THEN <<>>
    ELSE IF IsSpace(Head(text))
         THEN IF Len(text) > 1 /\ IsSpace(text[2])
              THEN CollapseSpaces(Tail(text))
              ELSE <<" ">> \o CollapseSpaces(Tail(text))
         ELSE <<Head(text)>> \o CollapseSpaces(Tail(text))

RECURSIVE StripLeft(_)
StripLeft(text) ==
    IF text # <<>> /\ IsSpace(Head(text)) THEN StripLeft(Tail(text)) ELSE text

RECURSIVE StripRight(_)
StripRight(text) ==
    IF text # <<>> /\ IsSpace(text[Len(text)])
    THEN StripRight(SubSeq(text, 1, Len(text) - 1))
    ELSE text

\* str.strip()
Strip(text) == StripRight(StripLeft(text))

normalize_header(text) ==
    IF text = <<>> THEN <<>>
    ELSE Strip(CollapseSpaces(DotsToSpaces(LowerText(StripCombining(NFKD(text))))))

CallNormalizeHeader ==
    /\ call.fn = "normalize_header" /\ ~call.done
    /\ call' = [call EXCEPT !.done = TRUE, !.out = normalize_header(call.arg)]
    /\ UNCHANGED <<pipelineVars, rawdir, pager, fetch, sect, portal>>

-----------------------------------------------------------------------------
(* get_cell.  A row is given as {header: value} (a dict, keys distinct, in
   insertion order) or as a list of cells next to the header index built by
   build_header_index; a list row may be shorter than the header list.  The
   result is None or the stripped cell. *)

RawHeaderTexts ==
    {<<"a">>, <<"A">>, <<"b">>, <<"a", "b">>, <<"b", "b", "a">>, <<" ">>}

AliasTexts ==
    {<<"a">>, <<"b">>, <<"a", "b">>, <<"a", "b", "b", "a">>}

\* the text of the cell in column i, as the portal delivers it
CellText(i) == <<" ", <<"1", "2", "3", "4", "5">>[i], " ">>

None == [found |-> FALSE, val |-> <<>>]
Some(val) == [found |-> TRUE, val |-> val]

\* alias in nk, for texts
Contains(text, part) ==
    \E i \in 0..(Len(text) - Len(part)) :
        SubSeq(text, i + 1, i + Len(part)) = part

\* faulty variant of ExactMatch: containment counts as an exact match
ExactMatchLoose(alias, nk) == Contains(nk, alias)

\* alias in norm_map / alias in header_index: equality of the texts
ExactMatch(alias, nk) == alias = nk

\* the least i in 1..n with P(i), or 0
FirstWhere(n, P(_)) ==
    LET holds == {i \in 1..n : P(i)}
    IN  IF holds = {} THEN 0
        ELSE CHOOSE i \in holds : \A j \in holds : i <= j

\* the normalized text of every header, computed once per call as the code
\* does when it builds norm_map / header_index
RECURSIVE NormalizedKeys(_)
NormalizedKeys(headers) ==
    IF headers = <<>> THEN <<>>
    ELSE <<normalize_header(Head(headers))>> \o NormalizedKeys(Tail(headers))

\* the keys of norm_map / header_index in insertion order: position k of
\* the header list is an entry when its normalized text did not occur before
\* (and, for build_header_index, is not empty)
IsEntry(norm, k, skipEmpty) ==
    /\ ~(skipEmpty /\ norm[k] = <<>>)
    /\ \A j \in 1..(k - 1) : norm[j] # norm[k]

\* val.strip()
CellOf(row, k) == Some(Strip(row[k]))

\* _get_cell_from_dict
GetCellFromDict(headers, row, aliases) ==
    LET n == Len(headers)
        m == Len(aliases)
        norm == NormalizedKeys(headers)
        Exact(a, k) == IsEntry(norm, k, FALSE) /\ ExactMatch(aliases[a], norm[k])
        Sub(a, k) == IsEntry(norm, k, FALSE) /\ Contains(norm[k], aliases[a])
        Rev(a, k) == /\ IsEntry(norm, k, FALSE)
                     /\ Len(norm[k]) > 2
                     /\ Contains(aliases[a], norm[k])
        HasExact(a) == \E k \in 1..n : Exact(a, k)
        HasSub(a) == \E k \in 1..n : Sub(a, k)
        HasRev(a) == \E k \in 1..n : Rev(a, k)
        a1 == FirstWhere(m, HasExact)
        a2 == FirstWhere(m, HasSub)
        a3 == FirstWhere(m, HasRev)
    IN  IF a1 # 0 THEN CellOf(row, FirstWhere(n, LAMBDA k : Exact(a1, k)))
        ELSE IF a2 # 0 THEN CellOf(row, FirstWhere(n, LAMBDA k : Sub(a2, k)))
        ELSE IF a3 # 0 THEN CellOf(row, FirstWhere(n, LAMBDA k : Rev(a3, k)))
        ELSE None

\* 0 <= idx < len(row)
InRange(row, k) == k <= Len(row)

\* _get_cell_from_list with header_index = build_header_index(headers)
GetCellFromList(headers, row, aliases) ==
    LET n == Len(headers)
        m == Len(aliases)
        norm == NormalizedKeys(headers)
        Exact(a, k) == /\ IsEntry(norm, k, TRUE) /\ ExactMatch(aliases[a], norm[k])
                       /\ InRange(row, k)
        Sub(a, k) == /\ IsEntry(norm, k, TRUE) /\ Contains(norm[k], aliases[a])
                     /\ InRange(row, k)
        HasExact(a) == \E k \in 1..n : Exact(a, k)
        HasSub(a) == \E k \in 1..n : Sub(a, k)
        a1 == FirstWhere(m, HasExact)
        a2 == FirstWhere(m, HasSub)
    IN  IF a1 # 0 THEN CellOf(row, FirstWhere(n, LAMBDA k : Exact(a1, k)))
        ELSE IF a2 # 0 THEN CellOf(row, FirstWhere(n, LAMBDA k : Sub(a2, k)))
        ELSE None

\* get_cell: isinstance(row, dict)
get_cell(arg) ==
    IF arg.kind = "dict"
    THEN GetCellFromDict(arg.headers, arg.row, arg.aliases)
    ELSE GetCellFromList(arg.headers, arg.row, arg.aliases)

HeaderLists(maxColumns) == SeqsUpTo(RawHeaderTexts, maxColumns) \ {<<>>}
AliasLists(maxAliases) ==
    {l \in SeqsUpTo(AliasTexts, maxAliases) : l # <<>> /\ NoRepeat(l)}

CallGetCell ==
    /\ call.fn = "get_cell" /\ ~call.done
    /\ call' = [call EXCEPT !.done = TRUE, !.out = get_cell(call.arg)]
    /\ UNCHANGED <<pipelineVars, rawdir, pager, fetch, sect, portal>>

InitResolver ==
    /\ PipelineIdle
    /\ rawdir = NoRawDir
    /\ pager = NoPager
    /\ fetch = NoFetch
    /\ sect = NoSect
    /\ portal = NoPortal
    /\ \/ \E attrs \in SeqsUpTo(ColspanAttrs, MaxCells) :
              call = Call("extract_headers_with_colspan", HeaderCells(attrs))
       \/ \E text \in SeqsUpTo(HeaderChars, MaxHeaderLen) :
              call = Call("normalize_header", text)
       \/ \E hs \in HeaderLists(MaxColumns), al \in AliasLists(MaxAliases) :
              \/ /\ NoRepeat(hs)
                 /\ call = Call("get_cell",
                                [kind |-> "dict", headers |-> hs,
                                 row |-> [k \in 1..Len(hs) |-> CellText(k)],
                                 aliases |-> al])
              \/ \E len \in 0..Len(hs) :
                     call = Call("get_cell",
                                 [kind |-> "list", headers |-> hs,
                                  row |-> [k \in 1..len |-> CellText(k)],
                                  aliases |-> al])

NextResolver ==
    \/ CallExtractHeaders
    \/ CallNormalizeHeader
    \/ CallGetCell

SpecResolver == InitResolver /\ [][NextResolver]_vars

-----------------------------------------------------------------------------
(* parse_money_clp, looks_like_money and is_rut.  An argument is None or a
   text.  A number is (-1)^neg * mant / 10^scale; the result of
   parse_money_clp is None (Null), a number, or what float() makes of "nan"
   and "inf". *)

NoneArg == [isNone |-> TRUE, text |-> <<>>]
TextArg(t) == [isNone |-> FALSE, text |-> t]

Null == [kind |-> "null", neg |-> FALSE, mant |-> 0, scale |-> 0]
Num(neg, mant, scale) == [kind |-> "num", neg |-> neg, mant |-> mant, scale |-> scale]
ValueError == [kind |-> "ValueError", neg |-> FALSE, mant |-> 0, scale |-> 0]

DigitChars == {"0", "1", "2", "3", "4", "5", "6", "7", "8", "9"}
IsDigit(c) == c \in DigitChars
DigitValue(c) == CHOOSE n \in 0..9 : <<"0", "1", "2", "3", "4", "5", "6", "7", "8", "9">>[n + 1] = c

\* str.replace(c, ""), for each c of a set
RemoveChars(text, cs) == SelectSeq(text, LAMBDA c : c \notin cs)

\* str.replace(a, b), one character each
ReplaceChar(text, a, b) == [i \in 1..Len(text) |-> IF text[i] = a THEN b ELSE text[i]]

\* str.count(c)
CountChar(text, c) == Cardinality({i \in 1..Len(text) : text[i] = c})

RECURSIVE DigitsValue(_, _)
\* the integer written by a run of digits
DigitsValue(text, acc) ==
    IF text = <<>> THEN acc
    ELSE DigitsValue(Tail(text), 10 * acc + DigitValue(Head(text)))

\* float(cleaned) for a text without whitespace, underscores or exponent:
\* an optional sign, then digits with at most one point and at least one
\* digit, or nan / inf / infinity in any case; anything else is a ValueError
ParseFloat(text) ==
    LET signed == text # <<>> /\ text[1] \in {"-", "+"}
        neg == signed /\ text[1] = "-"
        body == IF signed THEN Tail(text) ELSE text
        word == LowerText(body)
        digits == RemoveChars(body, {"."})
        point == FirstWhere(Len(body), LAMBDA i : body[i] = ".")
    IN  IF word = <<"n", "a", "n">> THEN [kind |-> "nan", neg |-> neg, mant |-> 0, scale |-> 0]
        ELSE IF word \in {<<"i", "n", "f">>, <<"i", "n", "f", "i", "n", "i", "t", "y">>}
             THEN [kind |-> "inf", neg |-> neg, mant |-> 0, scale |-> 0]
        ELSE IF /\ digits # <<>>
                /\ \A i \in 1..Len(digits) : IsDigit(digits[i])
                /\ CountChar(body, ".") <= 1
             THEN Num(neg, DigitsValue(digits, 0),
                      IF point = 0 THEN 0 ELSE Len(body) - point)
        ELSE ValueError

\* -result
Negate(r) == [r EXCEPT !.neg = ~r.neg]

\* lower in ("", "-", "--", "no informa", "no aplica", "n/a", "s/i",
\*           "sin informacion" written with its accent)
Placeholders ==
    {<<>>, <<"-">>, <<"-", "-">>, <<"n", "o", " ", "i", "n", "f", "o", "r", "m", "a">>,
     <<"n", "o", " ", "a", "p", "l", "i", "c", "a">>, <<"n", "/", "a">>, <<"s", "/", "i">>,
     <<"s", "i", "n", " ", "i", "n", "f", "o", "r", "m", "a", "c", "i", "o'", "n">>}

\* the separator rule of the try block: what is handed to float()
LocaleDigits(cleaned) ==
    IF CountChar(cleaned, ",") > 0
    THEN ReplaceChar(RemoveChars(cleaned, {"."}), ",", ".")
    ELSE IF CountChar(cleaned, ".") > 1 THEN RemoveChars(cleaned, {"."})
    ELSE IF CountChar(cleaned, ".") = 1
         THEN LET point == FirstWhere(Len(cleaned), LAMBDA i : cleaned[i] = ".")
              IN  IF Len(cleaned) - point = 3
                  THEN RemoveChars(cleaned, {"."})
                  ELSE cleaned
    ELSE cleaned

\* faulty variant of CatchValueError: the exception leaves the function
PropagateValueError(r) == r

\* except (ValueError, TypeError): return None
CatchValueError(r) == IF r.kind = "ValueError" THEN Null ELSE r

parse_money_clp(arg) ==
    IF arg.isNone THEN Null
    ELSE LET stripped == Strip(arg.text)
             negative == /\ stripped # <<>>
                         /\ stripped[1] = "("
                         /\ stripped[Len(stripped)] = ")"
             inner == IF negative THEN SubSeq(stripped, 2, Len(stripped) - 1)
                      ELSE stripped
             cleaned == Strip(RemoveChars(inner, {"$", " "}))
             result == ParseFloat(LocaleDigits(cleaned))
         IN  IF stripped = <<>> THEN Null
             ELSE IF LowerText(stripped) \in Placeholders THEN Null
             ELSE IF cleaned = <<>> THEN Null
             ELSE CatchValueError(
                      IF negative /\ result.kind # "ValueError"
                      THEN Negate(result) ELSE result)

\* scrape_pipeline._parse_float for None and for a cell text
_parse_float(arg) ==
    IF arg.isNone THEN Null
    ELSE LET cleaned == Strip(RemoveChars(
                            ReplaceChar(RemoveChars(arg.text, {"."}), ",", "."),
                            {"$"}))
         IN  IF cleaned = <<>> THEN Null ELSE CatchValueError(ParseFloat(cleaned))

(* Matching of the regular expressions: a set of positions the match can
   have reached in the text, advanced by one element of the pattern. *)

\* \d{lo,hi}
StepDigits(text, P, lo, hi) ==
    UNION {{p + m : m \in {n \in lo..hi :
                              /\ p + n - 1 <= Len(text)
                              /\ \A i \in p..(p + n - 1) : IsDigit(text[i])}} :
              p \in P}

\* one character of cs
StepOne(text, P, cs) == {p + 1 : p \in {q \in P : q <= Len(text) /\ text[q] \in cs}}

\* c?
StepOptional(text, P, cs) == P \cup StepOne(text, P, cs)

RECURSIVE StepSpaces(_, _)
\* \s*
StepSpaces(text, P) ==
    LET Q == P \cup StepOne(text, P, {" ", "TAB"})
    IN  IF Q = P THEN P ELSE StepSpaces(text, Q)

RECURSIVE StepThousands(_, _)
\* (\.\d{3})+
StepThousands(text, P) ==
    LET Q == StepDigits(text, StepOne(text, P, {"."}), 3, 3)
    IN  IF Q = {} THEN {} ELSE Q \cup StepThousands(text, Q)

\* ...$ at the end of a stripped text
Matches(text, P) == (Len(text) + 1) \in P

\* faulty variant of RutPattern: the check character may be missing
RutPatternNoCheck(t) ==
    LET p1 == StepDigits(t, StepSpaces(t, {1}), 1, 2)
        p2 == StepDigits(t, StepOptional(t, p1, {"."}), 3, 3)
        p3 == StepDigits(t, StepOptional(t, p2, {"."}), 3, 3)
    IN  Matches(t, StepSpaces(t, StepOptional(t, p3, {"-"})))

\* _RUT_PATTERN = ^\s*\d{1,2}\.?\d{3}\.?\d{3}-?[\dkK]\s*$
RutPattern(t) ==
    LET p1 == StepDigits(t, StepSpaces(t, {1}), 1, 2)
        p2 == StepDigits(t, StepOptional(t, p1, {"."}), 3, 3)
        p3 == StepDigits(t, StepOptional(t, p2, {"."}), 3, 3)
        p4 == StepOne(t, StepOptional(t, p3, {"-"}), DigitChars \cup {"k", "K"})
    IN  Matches(t, StepSpaces(t, p4))

is_rut(arg) ==
    IF arg.isNone \/ arg.text = <<>> THEN FALSE
    ELSE IF Strip(arg.text) = <<>> THEN FALSE
    ELSE RutPattern(Strip(arg.text))

\* "$" in t, or ^\s*-?\s*\d{1,3}(\.\d{3})+\s*$
looks_like_money(arg) ==
    IF arg.isNone \/ arg.text = <<>> THEN FALSE
    ELSE LET t == Strip(arg.text)
             p1 == StepSpaces(t, StepOptional(t, StepSpaces(t, {1}), {"-"}))
             p2 == StepThousands(t, StepDigits(t, p1, 1, 3))
         IN  \/ CountChar(t, "$") > 0
             \/ Matches(t, StepSpaces(t, p2))

(* Arguments *)

MoneyChars == {"$", " ", "(", ")", ".", ",", "-", "0", "5"}

MoneyExamples ==
    {<<"$", " ", "1", ".", "2", "3", "4", ".", "5", "6", "7">>,
     <<"1", ".", "2", "3", "4", ",", "5", "6">>,
     <<"(", "$", " ", "5", "0", "0", ".", "0", "0", "0", ")">>,
     <<"$", " ", "4", "5", "8", ".", "8", "3", "2">>,
     <<"8", "0", "0", "0", "0", "0">>,
     <<"$", " ", "0">>,
     <<"N", "o", " ", "I", "n", "f", "o", "r", "m", "a">>,
     <<"N", "/", "A">>,
     <<"S", "/", "I">>,
     <<"s", "i", "n", " ", "i", "n", "f", "o", "r", "m", "a", "c", "i", "o'", "n">>,
     <<"n", "a", "n">>,
     <<"i", "n", "f">>,
     <<"a", "b", "c">>,
     <<"1", "2", ".", "3", "4", "5", ".", "6", "7", "8", "-", "9">>}

DigitRun(n) == [i \in 1..n |-> "1"]

\* amounts with a prefix, up to three digit groups and a suffix
AmountShaped(maxRun) ==
    {pre \o DigitRun(lead) \o s1 \o DigitRun(mid) \o s2 \o DigitRun(last) \o post :
        pre \in {<<>>, <<"$">>, <<"$", " ">>, <<"(">>, <<"$", "(">>, <<"-">>},
        lead \in 1..2,
        s1 \in {<<>>, <<".">>, <<",">>},
        mid \in 0..(maxRun - 1),
        s2 \in {<<>>, <<".">>, <<",">>},
        last \in 0..(maxRun - 1),
        post \in {<<>>, <<")">>, <<" ">>}}

\* texts shaped like an identifier, or nearly: digit groups of varying
\* length with separators, hyphens, a check character and surroundings
RutShaped(maxRun) ==
    {pre \o DigitRun(lead) \o s1 \o DigitRun(mid) \o s2 \o DigitRun(last)
         \o hy \o chk \o post :
        pre \in {<<>>, <<" ">>},
        lead \in 0..(maxRun - 1),
        s1 \in {<<>>, <<".">>, <<"-">>},
        mid \in 2..maxRun,
        s2 \in {<<>>, <<".">>},
        last \in 2..maxRun,
        hy \in {<<>>, <<"-">>, <<"-", "-">>},
        chk \in {<<>>, <<"9">>, <<"K">>, <<"k">>, <<"a">>},
        post \in {<<>>, <<" ">>, <<"$">>}}

RutExamples ==
    {<<"1", "2", ".", "3", "4", "5", ".", "6", "7", "8", "-", "9">>,
     <<"1", "2", "3", "4", "5", "6", "7", "8", "-", "9">>,
     <<"1", "2", ".", "3", "4", "5", ".", "6", "7", "8", "-", "K">>,
     <<"9", ".", "8", "7", "6", ".", "5", "4", "3", "-", "2">>,
     <<"$", " ", "4", "5", "8", ".", "8", "3", "2">>,
     <<"1", ".", "2", "3", "4", ".", "5", "6", "7">>,
     <<"J", "u", "a", "n", " ", "S", "o", "t", "o">>,
     <<" ">>,
     <<>>}

CallParseMoney ==
    /\ call.fn = "parse_money_clp" /\ ~call.done
    /\ call' = [call EXCEPT !.done = TRUE, !.out = parse_money_clp(call.arg)]
    /\ UNCHANGED <<pipelineVars, rawdir, pager, fetch, sect, portal>>

CallIsRut ==
    /\ call.fn = "is_rut" /\ ~call.done
    /\ call' = [call EXCEPT !.done = TRUE, !.out = is_rut(call.arg)]
    /\ UNCHANGED <<pipelineVars, rawdir, pager, fetch, sect, portal>>

CallParseFloat ==
    /\ call.fn = "_parse_float" /\ ~call.done
    /\ call' = [call EXCEPT !.done = TRUE, !.out = _parse_float(call.arg)]
    /\ UNCHANGED <<pipelineVars, rawdir, pager, fetch, sect, portal>>

InitLocale ==
    /\ PipelineIdle
    /\ rawdir = NoRawDir
    /\ pager = NoPager
    /\ fetch = NoFetch
    /\ sect = NoSect
    /\ portal = NoPortal
    /\ \/ call = Call("parse_money_clp", NoneArg)
       \/ \E text \in SeqsUpTo(MoneyChars, MaxMoneyLen) \cup AmountShaped(MaxDigitRun)
                        \cup Placeholders \cup MoneyExamples :
              \/ call = Call("parse_money_clp", TextArg(text))
              \/ call = Call("_parse_float", TextArg(text))
       \/ call = Call("_parse_float", NoneArg)
       \/ call = Call("is_rut", NoneArg)
       \/ \E text \in RutShaped(MaxDigitRun) \cup RutExamples :
              call = Call("is_rut", TextArg(text))

NextLocale ==
    \/ CallParseMoney
    \/ CallIsRut
    \/ CallParseFloat

SpecLocale == InitLocale /\ [][NextLocale]_vars

-----------------------------------------------------------------------------
(* normalize_honorarios_record and normalize_contrata_planta_record.  A raw
   record is a dict {header: cell text}, given as its headers and its cells
   in insertion order.  Of the normalized record the model keeps the fields
   the defensive validation reads or writes. *)

ALIASES_RUT ==
    <<<<"r", "u", "t">>,
     <<"r", "u", "t", " ", "f", "u", "n", "c", "i", "o", "n", "a", "r", "i", "o">>,
     <<"r", "u", "t", " ", "p", "r", "e", "s", "t", "a", "d", "o", "r">>,
     <<"r", "u", "t", " ", "p", "r", "o", "v", "e", "e", "d", "o", "r">>,
     <<"r", "u", "n">>,
     <<"c", "e", "d", "u", "l", "a">>,
     <<"c", "e", "d", "u", "l", "a", " ", "i", "d", "e", "n", "t", "i", "d", "a", "d">>>>

ALIASES_HONORARIOS_MONTO ==
    <<<<"m", "o", "n", "t", "o", " ", "t", "o", "t", "a", "l">>,
     <<"m", "o", "n", "t", "o", " ", "b", "r", "u", "t", "o">>,
     <<"m", "o", "n", "t", "o">>,
     <<"t", "o", "t", "a", "l">>,
     <<"h", "o", "n", "o", "r", "a", "r", "i", "o", "s">>,
     <<"h", "o", "n", "o", "r", "a", "r", "i", "o">>,
     <<"h", "o", "n", "o", "r", "a", "r", "i", "o", " ", "t", "o", "t", "a", "l", " ", "b", "r", "u", "t", "o", " ", "m", "e", "n", "s", "u", "a", "l", "i", "z", "a", "d", "o">>,
     <<"h", "o", "n", "o", "r", "a", "r", "i", "o", " ", "b", "r", "u", "t", "o", " ", "m", "e", "n", "s", "u", "a", "l">>,
     <<"p", "a", "g", "o", " ", "b", "r", "u", "t", "o">>,
     <<"p", "a", "g", "o">>,
     <<"m", "o", "n", "t", "o", " ", "p", "a", "g", "o">>,
     <<"r", "e", "m", "u", "n", "e", "r", "a", "c", "i", "o", "n", " ", "b", "r", "u", "t", "a", " ", "m", "e", "n", "s", "u", "a", "l", "i", "z", "a", "d", "a">>>>

ALIASES_HONORARIOS_REM_BRUTA ==
    <<<<"r", "e", "m", "u", "n", "e", "r", "a", "c", "i", "o", "n", " ", "b", "r", "u", "t", "a">>,
     <<"r", "e", "m", " ", "b", "r", "u", "t", "a">>,
     <<"r", "e", "n", "t", "a", " ", "b", "r", "u", "t", "a">>,
     <<"t", "o", "t", "a", "l", " ", "h", "a", "b", "e", "r", "e", "s">>,
     <<"t", "o", "t", "a", "l", " ", "i", "m", "p", "o", "n", "i", "b", "l", "e">>,
     <<"h", "a", "b", "e", "r", "e", "s">>,
     <<"b", "r", "u", "t", "o">>,
     <<"s", "u", "e", "l", "d", "o", " ", "b", "r", "u", "t", "o">>>>

ALIASES_CP_REM_BRUTA ==
    <<<<"r", "e", "m", "u", "n", "e", "r", "a", "c", "i", "o", "n", " ", "b", "r", "u", "t", "a">>,
     <<"r", "e", "m", " ", "b", "r", "u", "t", "a">>,
     <<"r", "e", "m", "u", "n", "e", "r", "a", "c", "i", "o", "n", " ", "b", "r", "u", "t", "a", " ", "m", "e", "n", "s", "u", "a", "l", "i", "z", "a", "d", "a">>,
     <<"r", "e", "n", "t", "a", " ", "b", "r", "u", "t", "a">>,
     <<"t", "o", "t", "a", "l", " ", "h", "a", "b", "e", "r", "e", "s">>,
     <<"t", "o", "t", "a", "l", " ", "i", "m", "p", "o", "n", "i", "b", "l", "e">>,
     <<"h", "a", "b", "e", "r", "e", "s">>,
     <<"b", "r", "u", "t", "o">>,
     <<"s", "u", "e", "l", "d", "o", " ", "b", "r", "u", "t", "o">>>>

ALIASES_CP_REM_LIQUIDA ==
    <<<<"r", "e", "m", "u", "n", "e", "r", "a", "c", "i", "o", "n", " ", "l", "i", "q", "u", "i", "d", "a">>,
      <<"r", "e", "m", " ", "l", "i", "q", "u", "i", "d", "a">>,
      <<"r", "e", "m", "u", "n", "e", "r", "a", "c", "i", "o", "n", " ", "l", "i", "q", "u", "i", "d", "a", " ", "m", "e", "n", "s", "u", "a", "l", "i", "z", "a", "d", "a">>,
      <<"r", "e", "n", "t", "a", " ", "l", "i", "q", "u", "i", "d", "a">>,
      <<"l", "i", "q", "u", "i", "d", "o">>,
      <<"l", "i", "q", "u", "i", "d", "o", " ", "a", " ", "p", "a", "g", "o">>,
      <<"s", "u", "e", "l", "d", "o", " ", "l", "i", "q", "u", "i", "d", "o">>,
      <<"n", "e", "t", "o">>>>

\* get_cell(raw, header_index, aliases) for a dict
Resolve(raw, aliases) == GetCellFromDict(raw.headers, raw.cells, aliases)

\* truth value of an optional text: neither None nor ""
Truthy(opt) == opt.found /\ opt.val # <<>>

ArgOf(opt) == IF opt.found THEN TextArg(opt.val) ELSE NoneArg

\* rut_val and not is_rut(rut_val) and looks_like_money(rut_val)
ColumnsShifted(rut_val) ==
    /\ Truthy(rut_val)
    /\ ~is_rut(ArgOf(rut_val))
    /\ looks_like_money(ArgOf(rut_val))

\* faulty variant of ShiftedAmount: the misplaced value is dropped
ShiftedAmountDropped(monto_total, rut_val) == monto_total

\* if not rec.get("monto_total") or not looks_like_money(...):
\*     rec["monto_total"] = rut_val
ShiftedAmount(monto_total, rut_val) ==
    IF ~Truthy(monto_total) \/ ~looks_like_money(ArgOf(monto_total))
    THEN rut_val ELSE monto_total

\* for val in raw.values(): if val and is_rut(str(val).strip()): ... break
ScanForRut(raw) ==
    LET IsRutCell(k) == /\ raw.cells[k] # <<>>
                        /\ is_rut(TextArg(Strip(raw.cells[k])))
        k == FirstWhere(Len(raw.cells), IsRutCell)
    IN  IF k = 0 THEN None ELSE Some(Strip(raw.cells[k]))

\* faulty variant of RecoveredRut: the resolved cell is kept
ResolvedRutKept(raw, rut_val) == rut_val

\* rec["rut"] = real_rut, inside the validation
RecoveredRut(raw, rut_val) ==
    IF ColumnsShifted(rut_val) THEN ScanForRut(raw) ELSE rut_val

normalize_honorarios_record(raw) ==
    LET rut_val == Resolve(raw, ALIASES_RUT)
        bruta == Resolve(raw, ALIASES_HONORARIOS_REM_BRUTA)
        monto == Resolve(raw, ALIASES_HONORARIOS_MONTO)
        shifted == IF ColumnsShifted(rut_val) THEN ShiftedAmount(monto, rut_val)
                   ELSE monto
    IN  [rut |-> RecoveredRut(raw, rut_val),
         remuneracion_bruta |-> bruta,
         monto_total |-> IF ~Truthy(shifted) /\ Truthy(bruta) THEN bruta
                         ELSE shifted]

\* faulty variant of GrossNetCheck: an empty gross amount is filled from the
\* net amount
GrossFromNet(rec) ==
    IF ~Truthy(rec.remuneracion_bruta) /\ Truthy(rec.remuneracion_liquida)
    THEN [rec EXCEPT !.remuneracion_bruta = rec.remuneracion_liquida]
    ELSE rec

\* if not rec.get("remuneracion_bruta") and rec.get("remuneracion_liquida"):
\*     logger.warning(...)
GrossNetCheck(rec) == rec

normalize_contrata_planta_record(raw) ==
    LET rut_val == Resolve(raw, ALIASES_RUT)
    IN  GrossNetCheck(
            [rut |-> RecoveredRut(raw, rut_val),
             remuneracion_bruta |-> Resolve(raw, ALIASES_CP_REM_BRUTA),
             remuneracion_liquida |-> Resolve(raw, ALIASES_CP_REM_LIQUIDA)])

RecordHeaders ==
    {<<"R", "u", "t">>, <<"M", "o", "n", "t", "o", " ", "T", "o", "t", "a", "l">>,
     <<"R", "e", "m", "u", "n", "e", "r", "a", "c", "i", "o", "n", " ", "B", "r", "u", "t", "a">>,
     <<"D", "e", "s", "c", "r", "i", "p", "c", "i", "o", "n">>}

RecordCells ==
    {<<"$", " ", "4", "5", "8", ".", "8", "3", "2">>, <<"1", "5", ".", "9", "9", "9", ".", "8", "8", "8", "-", "7">>, <<>>, <<"T", "e", "c", "n", "i", "c", "o">>}

CallNormalizeHonorarios ==
    /\ call.fn = "normalize_honorarios_record" /\ ~call.done
    /\ call' = [call EXCEPT !.done = TRUE,
                            !.out = normalize_honorarios_record(call.arg)]
    /\ UNCHANGED <<pipelineVars, rawdir, pager, fetch, sect, portal>>

CallNormalizeContrataPlanta ==
    /\ call.fn = "normalize_contrata_planta_record" /\ ~call.done
    /\ call' = [call EXCEPT !.done = TRUE,
                            !.out = normalize_contrata_planta_record(call.arg)]
    /\ UNCHANGED <<pipelineVars, rawdir, pager, fetch, sect, portal>>

InitRecord ==
    /\ PipelineIdle
    /\ rawdir = NoRawDir
    /\ pager = NoPager
    /\ fetch = NoFetch
    /\ sect = NoSect
    /\ portal = NoPortal
    /\ \E hs \in SeqsUpTo(RecordHeaders, MaxFields) :
          /\ NoRepeat(hs)
          /\ \E cells \in [1..Len(hs) -> RecordCells],
                fn \in {"normalize_honorarios_record",
                        "normalize_contrata_planta_record"} :
                 call = Call(fn, [headers |-> hs, cells |-> cells])

NextRecord ==
    \/ CallNormalizeHonorarios
    \/ CallNormalizeContrataPlanta

SpecRecord == InitRecord /\ [][NextRecord]_vars

\* raw records whose headers share an alias: "rut" is contained in the
\* normalized texts of Remuneracion Bruta and Monto Bruto
OrderHeaders ==
    {<<"R", "u", "t">>,
     <<"R", "e", "m", "u", "n", "e", "r", "a", "c", "i", "o", "n", " ", "B", "r", "u", "t", "a">>,
     <<"M", "o", "n", "t", "o", " ", "B", "r", "u", "t", "o">>}

OrderCells ==
    {<<"$", " ", "4", "5", "8", ".", "8", "3", "2">>,
     <<"1", "5", ".", "9", "9", "9", ".", "8", "8", "8", "-", "7">>,
     <<"8", "0", "0", "0", "0", "0">>}

InitColumnOrder ==
    /\ PipelineIdle
    /\ rawdir = NoRawDir
    /\ pager = NoPager
    /\ fetch = NoFetch
    /\ sect = NoSect
    /\ portal = NoPortal
    /\ \E hs \in SeqsUpTo(OrderHeaders, MaxFields) :
          /\ NoRepeat(hs)
          /\ \E cells \in [1..Len(hs) -> OrderCells],
                fn \in {"normalize_honorarios_record",
                        "normalize_contrata_planta_record"} :
                 call = Call(fn, [headers |-> hs, cells |-> cells])

SpecColumnOrder == InitColumnOrder /\ [][NextRecord]_vars

\* raw contract/staff records with a gross and a net amount column
GrossNetHeaders ==
    {<<"R", "u", "t">>,
     <<"R", "e", "m", "u", "n", "e", "r", "a", "c", "i", "o", "n", " ", "B", "r", "u", "t", "a">>,
     <<"R", "e", "m", "u", "n", "e", "r", "a", "c", "i", "o", "n", " ", "L", "i", "q", "u", "i", "d", "a">>}

GrossNetCells ==
    {<<"$", " ", "4", "5", "8", ".", "8", "3", "2">>, <<"1", "5", ".", "9", "9", "9", ".", "8", "8", "8", "-", "7">>, <<>>}

InitGrossNet ==
    /\ PipelineIdle
    /\ rawdir = NoRawDir
    /\ pager = NoPager
    /\ fetch = NoFetch
    /\ sect = NoSect
    /\ portal = NoPortal
    /\ \E hs \in SeqsUpTo(GrossNetHeaders, MaxFields) :
          /\ NoRepeat(hs)
          /\ \E cells \in [1..Len(hs) -> GrossNetCells],
                fn \in {"normalize_honorarios_record",
                        "normalize_contrata_planta_record"} :
                 call = Call(fn, [headers |-> hs, cells |-> cells])

SpecGrossNet == InitGrossNet /\ [][NextRecord]_vars

-----------------------------------------------------------------------------
(* The normalizers of the two engines.  PortalScraper._normalize_honorarios
   delegates to column_mapping; HTTPScraper._normalize_honorarios has its own
   chain of substring tests on key.lower().strip().  Of its result the model
   keeps rut. *)

\* if "nombre" in k or "persona" in k: ... elif k == "rut" or "rut" in k:
\*     rec["rut"] = val
AssignsRut(key) ==
    LET k == Strip(LowerText(key))
    IN  /\ ~Contains(k, <<"n", "o", "m", "b", "r", "e">>)
        /\ ~Contains(k, <<"p", "e", "r", "s", "o", "n", "a">>)
        /\ Contains(k, <<"r", "u", "t">>)

\* the last key of the row that assigns rut supplies it; without one the
\* record has no rut
HTTPScraper_normalize_honorarios(raw) ==
    LET ks == {k \in 1..Len(raw.headers) : AssignsRut(raw.headers[k])}
    IN  [rut |-> IF ks = {} THEN None
                 ELSE Some(raw.cells[CHOOSE k \in ks : \A j \in ks : j <= k])]

PortalScraper_normalize_honorarios(raw) == normalize_honorarios_record(raw)

CallHttpNormalize ==
    /\ call.fn = "HTTPScraper._normalize_honorarios" /\ ~call.done
    /\ call' = [call EXCEPT !.done = TRUE,
                            !.out = HTTPScraper_normalize_honorarios(call.arg)]
    /\ UNCHANGED <<pipelineVars, rawdir, pager, fetch, sect, portal>>

CallPortalNormalize ==
    /\ call.fn = "PortalScraper._normalize_honorarios" /\ ~call.done
    /\ call' = [call EXCEPT !.done = TRUE,
                            !.out = PortalScraper_normalize_honorarios(call.arg)]
    /\ UNCHANGED <<pipelineVars, rawdir, pager, fetch, sect, portal>>

InitEngineRecords ==
    /\ PipelineIdle
    /\ rawdir = NoRawDir
    /\ pager = NoPager
    /\ fetch = NoFetch
    /\ sect = NoSect
    /\ portal = NoPortal
    /\ \E hs \in SeqsUpTo(RecordHeaders, MaxFields) :
          /\ NoRepeat(hs)
          /\ \E cells \in [1..Len(hs) -> RecordCells],
                fn \in {"HTTPScraper._normalize_honorarios",
                        "PortalScraper._normalize_honorarios"} :
                 call = Call(fn, [headers |-> hs, cells |-> cells])

NextEngineRecords ==
    \/ CallHttpNormalize
    \/ CallPortalNormalize

SpecEngineRecords == InitEngineRecords /\ [][NextEngineRecords]_vars

-----------------------------------------------------------------------------
(* HTTPScraper._get_with_retry(url, retries): the GET requests of one call.
   fetch.log holds, for every request issued, what came back and how long
   the call slept before going on. *)

\* the status codes the portal answers with
Statuses == {200, 204, 404, 429, 500, 503}

\* httpx.TimeoutException and the other httpx.HTTPError (transport errors)
GetExceptions == {"TimeoutException", "HTTPError"}

\* retries=MAX_RETRIES by default, retries=1 in _try_ajax_endpoints
RetryArgs == 1..MAX_RETRIES

\* 2 ** attempt
Backoff(attempt) == 2 ^ attempt

StartFetch(retries) ==
    [pc |-> "get", retries |-> retries, attempt |-> 1, log |-> <<>>,
     result |-> "pending"]

InitGetWithRetry ==
    /\ PipelineIdle
    /\ call = NoCall
    /\ rawdir = NoRawDir
    /\ pager = NoPager
    /\ sect = NoSect
    /\ portal = NoPortal
    /\ \E retries \in RetryArgs : fetch = StartFetch(retries)

\* what one request came back with: a response with a status code, or an
\* exception
Response(status) == [status |-> status, exc |-> "none"]
Raised(e) == [status |-> 0, exc |-> e]

Logged(outcome, wait) == [outcome |-> outcome, wait |-> wait]

\* for attempt in range(1, retries + 1) goes on with the next attempt
NextAttempt(outcome, wait) ==
    [fetch EXCEPT !.attempt = @ + 1, !.log = Append(@, Logged(outcome, wait))]

\* return resp
ReturnResponse(status) ==
    [fetch EXCEPT !.pc = "returned", !.result = "response",
                  !.log = Append(@, Logged(Response(status), 0))]

\* resp = self.client.get(url) answers with a status code
GetResponds ==
    /\ fetch.pc = "get" /\ fetch.attempt <= fetch.retries
    /\ \E status \in Statuses :
         fetch' = IF status = 200 THEN ReturnResponse(status)
                  ELSE IF status \in {429, 503}
                       THEN NextAttempt(Response(status), Backoff(fetch.attempt))
                  ELSE IF status >= 400 THEN ReturnResponse(status)
                  ELSE NextAttempt(Response(status), 0)
    /\ UNCHANGED <<pipelineVars, call, rawdir, pager, sect, portal>>

\* self.client.get(url) raises: except httpx.TimeoutException / except
\* httpx.HTTPError, both sleeping only if attempt < retries
GetRaises ==
    /\ fetch.pc = "get" /\ fetch.attempt <= fetch.retries
    /\ \E e \in GetExceptions :
         fetch' = NextAttempt(Raised(e), IF fetch.attempt < fetch.retries
                                 THEN Backoff(fetch.attempt) ELSE 0)
    /\ UNCHANGED <<pipelineVars, call, rawdir, pager, sect, portal>>

\* the loop is exhausted: return None
GetExhausted ==
    /\ fetch.pc = "get" /\ fetch.attempt > fetch.retries
    /\ fetch' = [fetch EXCEPT !.pc = "returned", !.result = "None"]
    /\ UNCHANGED <<pipelineVars, call, rawdir, pager, sect, portal>>

NextGetWithRetry ==
    \/ GetResponds
    \/ GetRaises
    \/ GetExhausted

SpecGetWithRetry == InitGetWithRetry /\ [][NextGetWithRetry]_vars

-----------------------------------------------------------------------------
(* One kind x month extraction: HTTPScraper._scrape_section and
   PortalScraper._scrape_with_retry.  The page the HTTP engine reads carries
   sect.links download links and sect.endpoints discovered endpoints, all
   different URLs.  sect.since tells what has happened since the last
   request ("none": nothing, "delay": _rate_limit, "backoff": the sleep
   between attempts) and sect.gap what had happened between the last two
   requests.  sect.ran lists the ladder levels the current attempt has
   entered and sect.got the levels that produced rows in it; sect.js tells
   that _page_requires_js answered True.  sect.pages
   counts the table pages the attempt has read; counts above MaxChain are
   not told apart. *)

SectEngines == {"http", "playwright"}

\* time.sleep(2 ** attempt) in _scrape_section, time.sleep(5 * attempt) in
\* _scrape_with_retry
AttemptBackoff(engine, attempt) ==
    IF engine = "http" THEN 2 ^ attempt ELSE 5 * attempt

FirstStep(engine) == IF engine = "http" THEN "direct" ELSE "navigate"

\* for attempt in range(1, MAX_RETRIES + 1): try:
BeginAttempt(s, attempt) ==
    [s EXCEPT !.pc = FirstStep(s.engine), !.attempt = attempt, !.cand = 1,
              !.ran = IF s.engine = "http" THEN <<0>> ELSE <<>>,
              !.got = {}, !.pages = 0]

\* what _expand_personal_section() and _click_subsection() returned in the
\* current attempt (True: a visible element matched a selector and was clicked)
NotNavigated == [section |-> FALSE, subsection |-> FALSE]

StartSection(engine, links, endpoints) ==
    BeginAttempt([engine |-> engine, pc |-> "none", attempt |-> 0, cand |-> 1,
                  links |-> links, endpoints |-> endpoints,
                  since |-> "start", gap |-> "start",
                  url |-> [level |-> "none", idx |-> 0],
                  ran |-> <<>>, got |-> {}, pages |-> 0, sleeps |-> <<>>,
                  result |-> "pending", source |-> -1, js |-> FALSE,
                  nav |-> NotNavigated], 1)

InitSection ==
    /\ PipelineIdle
    /\ call = NoCall
    /\ rawdir = NoRawDir
    /\ pager = NoPager
    /\ fetch = NoFetch
    /\ portal = NoPortal
    /\ \/ \E links \in 0..MaxLinks, endpoints \in 0..MaxLinks :
            sect = StartSection("http", links, endpoints)
       \/ sect = StartSection("playwright", 0, 0)

\* self._get_with_retry(url) / self._get_html(url) has been called; after
\* is "delay" when _rate_limit() follows on the path taken
Fetched(s, level, idx, after) ==
    [s EXCEPT !.gap = s.since, !.since = after,
              !.url = [level |-> level, idx |-> idx]]

\* return a list: the normalized rows of a level, or []
Return(s, result, level) ==
    [s EXCEPT !.pc = "returned", !.result = result, !.source = level]

\* the attempt ends without rows: sleep if attempt < MAX_RETRIES and go on
\* with the next attempt; return [] after the last one
FailAttempt(s) ==
    IF s.attempt < MAX_RETRIES
    THEN [BeginAttempt(s, s.attempt + 1) EXCEPT
              !.sleeps = Append(@, AttemptBackoff(s.engine, s.attempt)),
              !.since = "backoff"]
    ELSE Return(s, "empty", -1)

StepOf(engine, level) ==
    IF level > 3 THEN "nodata"
    ELSE IF engine = "http" THEN <<"level1", "level2", "level3">>[level]
    ELSE <<"blevel1", "blevel2", "blevel3">>[level]

EnterLevel(s, level) ==
    [s EXCEPT !.pc = StepOf(s.engine, level), !.cand = 1,
              !.ran = IF level > 3 THEN @ ELSE Append(@, level)]

\* the level has produced rows and the ladder goes on all the same
AfterLevelFallsThrough(s, level, records) ==
    EnterLevel([s EXCEPT !.got = IF records THEN @ \cup {level} ELSE @],
               level + 1)

\* if csv_records: return ... / if records: ... return ... / if
\* ajax_records: return ...; otherwise the next level
AfterLevel(s, level, records) ==
    IF records THEN Return([s EXCEPT !.got = @ \cup {level}], "rows", level)
    ELSE EnterLevel(s, level + 1)

\* the candidate list of a level is exhausted after candidate s.cand
NextCandidate(s, level, count) ==
    IF s.cand < count THEN [s EXCEPT !.cand = @ + 1]
    ELSE AfterLevel(s, level, FALSE)

\* Level 0, _try_direct_url: one URL pattern is fetched; a page with data
\* is returned at once, anything else is followed by _rate_limit()
DirectUrlFetch ==
    /\ sect.engine = "http" /\ sect.pc = "direct"
    /\ \E data \in BOOLEAN :
         sect' = IF data
                 THEN EnterLevel(Fetched(sect, "direct", sect.cand, "none"), 1)
                 ELSE LET s == Fetched(sect, "direct", sect.cand, "delay")
                      IN  IF s.cand < DirectUrls THEN [s EXCEPT !.cand = @ + 1]
                          ELSE [s EXCEPT !.pc = "landing"]
    /\ UNCHANGED <<pipelineVars, call, rawdir, pager, fetch, portal>>

\* html = self._get_html(org_url); if html is None: sleep and continue
LandingFetch ==
    /\ sect.engine = "http" /\ sect.pc = "landing"
    /\ \E html \in BOOLEAN :
         sect' = IF html THEN EnterLevel(Fetched(sect, "org", 0, "none"), 1)
                 ELSE FailAttempt(Fetched(sect, "org", 0, "none"))
    /\ UNCHANGED <<pipelineVars, call, rawdir, pager, fetch, portal>>

\* Level 1, _try_csv_download: if not links: return None
DownloadNoLinks ==
    /\ sect.engine = "http" /\ sect.pc = "level1" /\ sect.links = 0
    /\ sect' = AfterLevel(sect, 1, FALSE)
    /\ UNCHANGED <<pipelineVars, call, rawdir, pager, fetch, portal>>

\* one download link is fetched.  "skipped": the response is None, not 200
\* or shorter than 100 bytes, or an exception is caught (continue);
\* "norows": the file parses to nothing (_rate_limit()); "rows": return
DownloadFetch ==
    /\ sect.engine = "http" /\ sect.pc = "level1" /\ sect.links > 0
    /\ \E out \in {"skipped", "norows", "rows"} :
         sect' = IF out = "rows"
                 THEN AfterLevel(Fetched(sect, "download", sect.cand, "none"),
                                 1, TRUE)
                 ELSE NextCandidate(
                          Fetched(sect, "download", sect.cand,
                                  IF out = "norows" THEN "delay" ELSE "none"),
                          1, sect.links)
    /\ UNCHANGED <<pipelineVars, call, rawdir, pager, fetch, portal>>

\* Level 2: records = self._parse_html_table(soup, section); with records
\* the pagination loop starts, the page read at Level 0 being page 1
TableParse ==
    /\ sect.engine = "http" /\ sect.pc = "level2"
    /\ \E records \in BOOLEAN :
         sect' = IF records
                 THEN [sect EXCEPT !.pc = "pages", !.pages = 1,
                                   !.got = @ \cup {2}]
                 ELSE AfterLevel(sect, 2, FALSE)
    /\ UNCHANGED <<pipelineVars, call, rawdir, pager, fetch, portal>>

\* for next_url in next_urls: a URL that is not in visited comes up;
\* visited.add(next_url); self._rate_limit()
PageRequest ==
    /\ sect.engine = "http" /\ sect.pc = "pages"
    /\ sect' = [sect EXCEPT !.pc = "pageget", !.since = "delay"]
    /\ UNCHANGED <<pipelineVars, call, rawdir, pager, fetch, portal>>

\* next_html = self._get_html(next_url); break without a page or without
\* rows; otherwise the rows are added and the links of the page that are
\* not in visited are appended to next_urls
PageGet ==
    /\ sect.engine = "http" /\ sect.pc = "pageget"
    /\ \E page_records \in BOOLEAN :
         LET s == [Fetched(sect, "page", Min(sect.pages + 1, MaxChain), "none")
                      EXCEPT !.pages = Min(@ + 1, MaxChain)]
         IN  sect' = IF page_records THEN [s EXCEPT !.pc = "pages"]
                     ELSE AfterLevel(s, 2, TRUE)
    /\ UNCHANGED <<pipelineVars, call, rawdir, pager, fetch, portal>>

\* next_urls holds no URL that is not in visited:
\* return self._normalize(records, section)
PagesEnd ==
    /\ sect.engine = "http" /\ sect.pc = "pages"
    /\ sect' = AfterLevel(sect, 2, TRUE)
    /\ UNCHANGED <<pipelineVars, call, rawdir, pager, fetch, portal>>

\* Level 3, _try_ajax_endpoints: if not endpoints: return []
EndpointsNone ==
    /\ sect.engine = "http" /\ sect.pc = "level3" /\ sect.endpoints = 0
    /\ sect' = AfterLevel(sect, 3, FALSE)
    /\ UNCHANGED <<pipelineVars, call, rawdir, pager, fetch, portal>>

\* one endpoint is fetched.  "skipped": the response is None or not 200, or
\* an exception is caught (continue); "norows": nothing usable in the
\* response (_rate_limit()); "rows": return records
EndpointFetch ==
    /\ sect.engine = "http" /\ sect.pc = "level3" /\ sect.endpoints > 0
    /\ \E out \in {"skipped", "norows", "rows"} :
         sect' = IF out = "rows"
                 THEN AfterLevel(Fetched(sect, "endpoint", sect.cand, "none"),
                                 3, TRUE)
                 ELSE NextCandidate(
                          Fetched(sect, "endpoint", sect.cand,
                                  IF out = "norows" THEN "delay" ELSE "none"),
                          3, sect.endpoints)
    /\ UNCHANGED <<pipelineVars, call, rawdir, pager, fetch, portal>>

\* if self._page_requires_js(soup): return []
JsRequired ==
    /\ sect.engine = "http" /\ sect.pc = "nodata"
    /\ sect' = Return([sect EXCEPT !.js = TRUE], "empty", -1)
    /\ UNCHANGED <<pipelineVars, call, rawdir, pager, fetch, portal>>

\* no data found on this attempt: sleep if attempt < MAX_RETRIES
NoDataFound ==
    /\ sect.pc = "nodata"
    /\ sect' = FailAttempt(sect)
    /\ UNCHANGED <<pipelineVars, call, rawdir, pager, fetch, portal>>

\* except Exception (and except PwTimeout in the Browser engine): whatever
\* is raised inside the try block ends the attempt
AttemptRaises ==
    /\ sect.engine \in SectEngines
    /\ sect.pc # "returned"
    /\ sect' = FailAttempt(sect)
    /\ UNCHANGED <<pipelineVars, call, rawdir, pager, fetch, portal>>

\* self._navigate_to_section(...) comes back: it calls
\* _expand_personal_section() and _click_subsection() and goes on to the
\* filters whatever they return
Navigate ==
    /\ sect.engine = "playwright" /\ sect.pc = "navigate"
    /\ \E section \in BOOLEAN, subsection \in BOOLEAN :
         sect' = EnterLevel([sect EXCEPT !.nav = [section |-> section,
                                                  subsection |-> subsection]], 1)
    /\ UNCHANGED <<pipelineVars, call, rawdir, pager, fetch, portal>>

\* Level 1: records = self._try_download_csv(...)
PortalDownload ==
    /\ sect.engine = "playwright" /\ sect.pc = "blevel1"
    /\ \E records \in BOOLEAN : sect' = AfterLevel(sect, 1, records)
    /\ UNCHANGED <<pipelineVars, call, rawdir, pager, fetch, portal>>

\* Level 2, _extract_table_data: for page_num in range(max_pages): the
\* rows of the displayed page are added; the loop goes on if
\* _click_next_page() succeeds
PortalTablePage ==
    /\ sect.engine = "playwright" /\ sect.pc = "blevel2"
    /\ sect.pages < max_pages
    /\ \E clicked \in BOOLEAN :
         LET s == [sect EXCEPT !.pages = @ + 1]
         IN  sect' = IF clicked THEN s ELSE AfterLevel(s, 2, TRUE)
    /\ UNCHANGED <<pipelineVars, call, rawdir, pager, fetch, portal>>

\* no table or no rows on the displayed page (break), or range(max_pages)
\* is exhausted: if raw: return normalizer(raw)
PortalTableEnds ==
    /\ sect.engine = "playwright" /\ sect.pc = "blevel2"
    /\ sect' = AfterLevel(sect, 2, sect.pages > 0)
    /\ UNCHANGED <<pipelineVars, call, rawdir, pager, fetch, portal>>

\* Level 3: raw = self._extract_from_raw_html()
PortalRawHtml ==
    /\ sect.engine = "playwright" /\ sect.pc = "blevel3"
    /\ \E raw \in BOOLEAN : sect' = AfterLevel(sect, 3, raw)
    /\ UNCHANGED <<pipelineVars, call, rawdir, pager, fetch, portal>>

NextSection ==
    \/ DirectUrlFetch
    \/ LandingFetch
    \/ DownloadNoLinks
    \/ DownloadFetch
    \/ TableParse
    \/ PageRequest
    \/ PageGet
    \/ PagesEnd
    \/ EndpointsNone
    \/ EndpointFetch
    \/ JsRequired
    \/ NoDataFound
    \/ AttemptRaises
    \/ Navigate
    \/ PortalDownload
    \/ PortalTablePage
    \/ PortalTableEnds
    \/ PortalRawHtml

SpecSection == InitSection /\ [][NextSection]_vars

\* every step of an extraction that can be taken is taken in the end
SpecSectionFair == SpecSection /\ WF_vars(NextSection)

-----------------------------------------------------------------------------
(* The resources of one PortalScraper: the Playwright driver, the browser,
   its context and page (__init__, close), and the HTTP client that
   _try_direct_link_download opens for the download links of a page.
   portal.held is the set of resources that are acquired and not released;
   portal.done counts the calls of _try_direct_link_download. *)

\* the statements of __init__ that acquire something, in order
ConstructorSteps == <<"driver", "browser", "context", "page", "raw_dir">>

\* the months of every kind, MAX_RETRIES attempts each
MaxDownloadCalls == MaxMonths * MaxKinds * MAX_RETRIES

StartPortal(links) ==
    [pc |-> "init", step |-> 1, links |-> links, held |-> {}, cand |-> 1,
     done |-> 0]

InitPortal ==
    /\ PipelineIdle
    /\ call = NoCall
    /\ rawdir = NoRawDir
    /\ pager = NoPager
    /\ fetch = NoFetch
    /\ sect = NoSect
    /\ \E links \in 0..MaxLinks : portal = StartPortal(links)

\* what is released along with the browser
WithBrowser == {"browser", "context", "page"}

\* try: self.browser.close(); self.pw.stop()  except Exception: pass
\* (when browser.close() raises, pw.stop() is not reached)
ClosePortal(held, browserCloses, driverStops) ==
    IF browserCloses
    THEN (held \ WithBrowser) \ (IF driverStops THEN {"driver"} ELSE {})
    ELSE held

\* one statement of __init__; when it raises the exception leaves the
\* constructor and _create_scraper, and no PortalScraper exists to be closed
ConstructorStep ==
    /\ portal.pc = "init"
    /\ \E ok \in BOOLEAN :
         portal' = IF ~ok THEN [portal EXCEPT !.pc = "failed"]
                   ELSE [portal EXCEPT
                           !.held = @ \cup ({ConstructorSteps[portal.step]}
                                               \ {"raw_dir"}),
                           !.step = @ + 1,
                           !.pc = IF portal.step = Len(ConstructorSteps)
                                  THEN "ready" ELSE "init"]
    /\ UNCHANGED <<pipelineVars, call, rawdir, pager, fetch, sect>>

\* _try_direct_link_download up to client = httpx.Client(...): page.evaluate
\* or context.cookies() raises (except Exception: return None), there are no
\* links (return None), or the client is opened
DirectLinksBegin ==
    /\ portal.pc = "ready" /\ portal.done < MaxDownloadCalls
    /\ \E raises \in BOOLEAN :
         portal' = IF raises \/ portal.links = 0
                   THEN [portal EXCEPT !.done = @ + 1]
                   ELSE [portal EXCEPT !.pc = "links", !.cand = 1,
                                       !.held = @ \cup {"client"}]
    /\ UNCHANGED <<pipelineVars, call, rawdir, pager, fetch, sect>>

\* for link in links: resp = client.get(href) ...; with records
\* client.close() and return; an exception is caught (continue); after the
\* last link client.close()
DirectLinkGet ==
    /\ portal.pc = "links"
    /\ \E out \in {"records", "nothing", "raised"} :
         portal' = IF out = "records" \/ portal.cand = portal.links
                   THEN [portal EXCEPT !.pc = "ready", !.done = @ + 1,
                                       !.held = @ \ {"client"}]
                   ELSE [portal EXCEPT !.cand = @ + 1]
    /\ UNCHANGED <<pipelineVars, call, rawdir, pager, fetch, sect>>

\* scraper.close() in the finally block of the phase
PortalClose ==
    /\ portal.pc = "ready"
    /\ \E browserCloses, driverStops \in BOOLEAN :
         portal' = [portal EXCEPT
                      !.pc = "closed",
                      !.held = ClosePortal(@, browserCloses, driverStops)]
    /\ UNCHANGED <<pipelineVars, call, rawdir, pager, fetch, sect>>

NextPortal ==
    \/ ConstructorStep
    \/ DirectLinksBegin
    \/ DirectLinkGet
    \/ PortalClose

SpecPortal == InitPortal /\ [][NextPortal]_vars

-----------------------------------------------------------------------------
(* The header row of a table as the two engines read it:
   HTTPScraper._extract_table_headers (BeautifulSoup) and
   PortalScraper._extract_headers (Playwright).  A table is given by the
   place of its header cells (<thead> with <th>, <thead> with <td>, a first
   <tr> of <th>, a first <tr> of <td>) and by the cells, each with its text
   and its colspan attribute; the cell texts are header words, or the amount
   "1.500" in every cell when the first row is a data row. *)

HeaderPlaces == {"thead th", "thead td", "tr th", "tr td"}

TableOf(place, attrs, numeric) ==
    [place |-> place,
     cells |-> [i \in 1..Len(attrs) |->
                   [text |-> IF numeric THEN "1.500" ELSE HeaderTextAt(i),
                    colspan |-> attrs[i]]]]

\* c.replace(".", "").replace(",", "").isdigit()
IsDigitText(text) == text = "1.500"

\* [th.get_text(strip=True) for th in ths]
CellTexts(cells) == [i \in 1..Len(cells) |-> [text |-> cells[i].text, n |-> 1]]

\* HTTPScraper._extract_table_headers(table)
_extract_table_headers(table) ==
    IF table.place \in {"thead th", "thead td", "tr th"}
    THEN CellTexts(table.cells)
    ELSE IF \E i \in 1..Len(table.cells) :
                table.cells[i].text # "" /\ ~IsDigitText(table.cells[i].text)
         THEN CellTexts(table.cells)
         ELSE <<>>

\* PortalScraper._extract_headers(table): _extract_with_colspan over the
\* cells of the first place that has any
_extract_headers(table) == ExtractHeaders(<<>>, table.cells)

\* the columns the header row spans (a cell without a usable colspan spans one)
ColumnsSpanned(cells) ==
    SumOver([i \in 1..Len(cells) |->
                IF ColspanOf(cells[i]) >= 1 THEN ColspanOf(cells[i]) ELSE 1],
            Len(cells), 0)

CallHttpHeaders ==
    /\ call.fn = "_extract_table_headers" /\ ~call.done
    /\ call' = [call EXCEPT !.done = TRUE, !.out = _extract_table_headers(call.arg)]
    /\ UNCHANGED <<pipelineVars, rawdir, pager, fetch, sect, portal>>

CallBrowserHeaders ==
    /\ call.fn = "_extract_headers" /\ ~call.done
    /\ call' = [call EXCEPT !.done = TRUE, !.out = _extract_headers(call.arg)]
    /\ UNCHANGED <<pipelineVars, rawdir, pager, fetch, sect, portal>>

InitTableHeaders ==
    /\ PipelineIdle
    /\ rawdir = NoRawDir
    /\ pager = NoPager
    /\ fetch = NoFetch
    /\ sect = NoSect
    /\ portal = NoPortal
    /\ \E attrs \in SeqsUpTo(ColspanAttrs, MaxCells) \ {<<>>},
          place \in HeaderPlaces, numeric \in BOOLEAN,
          fn \in {"_extract_table_headers", "_extract_headers"} :
          /\ numeric => place = "tr td"
          /\ call = Call(fn, TableOf(place, attrs, numeric))

NextTableHeaders ==
    \/ CallHttpHeaders
    \/ CallBrowserHeaders

SpecTableHeaders == InitTableHeaders /\ [][NextTableHeaders]_vars

-----------------------------------------------------------------------------
(* HTTPScraper._parse_html_table(soup, section): which table of the page is
   parsed.  A table is given by the header list _extract_table_headers
   returns for it and by the number of its <tr> elements (the header row
   included); header texts and keywords are sequences of characters, "o'"
   standing for the accented letter. *)

HONORARIOS_KEYWORDS ==
    {<<"n", "o", "m", "b", "r", "e">>, <<"r", "u", "t">>,
     <<"r", "e", "m", "u", "n", "e", "r", "a", "c", "i", "o'", "n">>,
     <<"r", "e", "m", "u", "n", "e", "r", "a", "c", "i", "o", "n">>,
     <<"h", "o", "n", "o", "r", "a", "r", "i", "o">>,
     <<"f", "u", "n", "c", "i", "o'", "n">>, <<"f", "u", "n", "c", "i", "o", "n">>}

CONTRATA_PLANTA_KEYWORDS ==
    {<<"n", "o", "m", "b", "r", "e">>, <<"r", "u", "t">>,
     <<"g", "r", "a", "d", "o">>, <<"c", "a", "r", "g", "o">>,
     <<"r", "e", "m", "u", "n", "e", "r", "a", "c", "i", "o'", "n">>,
     <<"r", "e", "m", "u", "n", "e", "r", "a", "c", "i", "o", "n">>,
     <<"b", "r", "u", "t">>}

\* the header lists of the tables of a page
TableHeaders ==
    LET Nombre == <<"N", "o", "m", "b", "r", "e">>
        Rut == <<"R", "U", "T">>
        Bruto == <<"B", "r", "u", "t", "o">>
        Cargo == <<"C", "a", "r", "g", "o">>
        Fecha == <<"F", "e", "c", "h", "a">>
        Monto == <<"M", "o", "n", "t", "o">>
    IN  {<<>>, <<Fecha, Monto>>, <<Fecha, Monto, Fecha>>, <<Fecha, Monto, Cargo>>,
         <<Nombre, Fecha>>, <<Nombre, Rut>>, <<Bruto>>}

\* a table with a header row has at least that <tr>
PageTables ==
    {t \in [headers : TableHeaders, rows : 0..MaxTableRows] :
        t.headers # <<>> => t.rows >= 1}

RECURSIVE JoinLower(_)
\* " ".join(h.lower() for h in headers)
JoinLower(headers) ==
    IF headers = <<>> THEN <<>>
    ELSE IF Len(headers) = 1 THEN LowerText(headers[1])
    ELSE LowerText(headers[1]) \o <<" ">> \o JoinLower(Tail(headers))

\* score = sum(1 for kw in keywords if kw in header_text)
Score(headers, keywords) ==
    Cardinality({kw \in keywords : Contains(JoinLower(headers), kw)})

RECURSIVE BestByScore(_, _, _, _, _)
\* for table in tables: ... if score > best_score and row_count > 1
BestByScore(tables, keywords, i, best_table, best_score) ==
    IF i > Len(tables) THEN best_table
    ELSE IF tables[i].headers # <<>>
            /\ Score(tables[i].headers, keywords) > best_score
            /\ tables[i].rows > 1
         THEN BestByScore(tables, keywords, i + 1, i,
                          Score(tables[i].headers, keywords))
         ELSE BestByScore(tables, keywords, i + 1, best_table, best_score)

\* for table in tables: if len(headers) >= 3 and len(rows) > 2: ...; break
Fallback(tables) ==
    FirstWhere(Len(tables),
               LAMBDA i : Len(tables[i].headers) >= 3 /\ tables[i].rows > 2)

\* the table (its position on the page, 0: none) whose rows are returned
_parse_html_table(tables, section) ==
    LET keywords == IF section = "honorarios" THEN HONORARIOS_KEYWORDS
                    ELSE CONTRATA_PLANTA_KEYWORDS
        scored == BestByScore(tables, keywords, 1, 0, 0)
        best_table == IF scored = 0 THEN Fallback(tables) ELSE scored
    IN  IF best_table = 0 \/ tables[best_table].headers = <<>> THEN 0
        ELSE best_table

CallParseHtmlTable ==
    /\ call.fn = "_parse_html_table" /\ ~call.done
    /\ call' = [call EXCEPT !.done = TRUE,
                            !.out = _parse_html_table(call.arg.tables,
                                                      call.arg.section)]
    /\ UNCHANGED <<pipelineVars, rawdir, pager, fetch, sect, portal>>

InitTableChoice ==
    /\ PipelineIdle
    /\ rawdir = NoRawDir
    /\ pager = NoPager
    /\ fetch = NoFetch
    /\ sect = NoSect
    /\ portal = NoPortal
    /\ \E tables \in SeqsUpTo(PageTables, MaxTables),
          section \in {"honorarios", "contrata"} :
          call = Call("_parse_html_table", [tables |-> tables, section |-> section])

SpecTableChoice == InitTableChoice /\ [][CallParseHtmlTable]_vars

-----------------------------------------------------------------------------
(* Properties of the header/column resolver *)

\* the columns a header cell stands for: its colspan when that is a positive
\* integer, one otherwise
EffectiveSpan(cell) == IF ColspanOf(cell) >= 1 THEN ColspanOf(cell) ELSE 1

SpanSum(cells, upto, Span(_)) ==
    SumOver([k \in 1..upto |-> Span(cells[k])], upto, 0)

SameLetter(c) ==
    CASE c \in {"a", "A", "a'", "A'"} -> {"a", "A", "a'", "A'"}
      [] c \in {".", "_", " ", "TAB"} -> {".", "_", " ", "TAB"}
      [] OTHER -> {c}

InsertAt(text, i, c) == SubSeq(text, 1, i) \o <<c>> \o SubSeq(text, i + 1, Len(text))
RemoveAt(text, i) == SubSeq(text, 1, i - 1) \o SubSeq(text, i + 1, Len(text))

\* no leading, trailing or repeated whitespace
Tidy(text) ==
    /\ \A i \in 1..Len(text) : text[i] # "TAB"
    /\ text # <<>> => text[1] # " " /\ text[Len(text)] # " "
    /\ \A i \in 1..(Len(text) - 1) : ~(text[i] = " " /\ text[i + 1] = " ")

\* C14: normalize_header is idempotent; changing the case or the accent of
\* a letter, exchanging dots, underscores and whitespace, repeating a
\* whitespace character or dropping an accent does not change the result;
\* the result has no leading, trailing or repeated whitespace.
C14_NormalizeHeader ==
    Returned("normalize_header") =>
        LET s == call.arg
            n == call.out
        IN  /\ normalize_header(n) = n
            /\ \A i \in 1..Len(s) :
                  /\ \A c \in SameLetter(s[i]) :
                        normalize_header([s EXCEPT ![i] = c]) = n
                  /\ s[i] \in {".", "_", " ", "TAB"} =>
                        normalize_header(InsertAt(s, i, s[i])) = n
                  /\ IsCombining(s[i]) => normalize_header(RemoveAt(s, i)) = n
            /\ Tidy(n)

\* an accented capital, a dot, an underscore and a letter have been normalized
C14_Witness ==
    /\ Returned("normalize_header")
    /\ call.arg = <<"A'", ".", "_", "b">>
    /\ call.out = <<"a", " ", "b">>

\* the first alias, in list order, that equals a normalized header of the
\* row (withCell: a header whose column has a cell in the row), or 0
FirstExactAlias(arg, withCell) ==
    FirstWhere(Len(arg.aliases),
               LAMBDA a : \E k \in 1..Len(arg.headers) :
                    /\ normalize_header(arg.headers[k]) = arg.aliases[a]
                    /\ withCell => k <= Len(arg.row))

\* the cell under the first header that equals alias a after normalization
CellUnder(arg, a) ==
    LET k == FirstWhere(Len(arg.headers),
                        LAMBDA j : normalize_header(arg.headers[j]) = arg.aliases[a])
    IN  IF k <= Len(arg.row) THEN Some(Strip(arg.row[k])) ELSE None

-----------------------------------------------------------------------------
(* Properties of the locale value parser *)

\* a text of digits, separators, currency symbol, spaces and parentheses
IsAmountText(text) ==
    \A i \in 1..Len(text) :
        text[i] \in DigitChars \cup {".", ",", "$", " ", "(", ")"}

\* the separator rule as it is stated: with a comma every dot is a thousands
\* separator and the comma the decimal separator; without one, several dots
\* are thousands separators and a single dot is one exactly when three
\* digits follow it
StatedSeparators(text) ==
    LET dots == {i \in 1..Len(text) : text[i] = "."}
        commas == {i \in 1..Len(text) : text[i] = ","}
        ThreeDigitsAfter(i) ==
            /\ Len(text) = i + 3
            /\ \A j \in (i + 1)..(i + 3) : IsDigit(text[j])
    IN  IF commas # {}
        THEN [i \in 1..Len(RemoveChars(text, {"."})) |->
                 IF RemoveChars(text, {"."})[i] = "," THEN "."
                 ELSE RemoveChars(text, {"."})[i]]
        ELSE IF Cardinality(dots) > 1 \/ \E i \in dots : ThreeDigitsAfter(i)
             THEN RemoveChars(text, {"."})
        ELSE text

\* the stated rule: strip the currency symbol and the spaces, negate a
\* parenthesized value, apply the separator rule
StatedAmount(text) ==
    LET bare == RemoveChars(text, {"$", " "})
        parenthesized == /\ Len(bare) >= 2
                         /\ bare[1] = "("
                         /\ bare[Len(bare)] = ")"
        inner == IF parenthesized THEN SubSeq(bare, 2, Len(bare) - 1) ELSE bare
        value == ParseFloat(StatedSeparators(inner))
    IN  IF parenthesized /\ value.kind = "num" THEN Negate(value) ELSE value

\* C16: for every text of digits, separators, currency symbol, spaces and
\* parentheses that the stated locale rule reads as a number,
\* parse_money_clp returns that number.
C16_LocaleRule ==
    (/\ Returned("parse_money_clp")
     /\ ~call.arg.isNone
     /\ IsAmountText(call.arg.text)
     /\ StatedAmount(call.arg.text).kind = "num")
        => call.out = StatedAmount(call.arg.text)

\* C17: parse_money_clp never raises; None, blank texts and the placeholders
\* give None; "$ 0" gives the number zero, which is not None; a text that is
\* not a placeholder and holds no number gives None.
C17_NeverRaises ==
    Returned("parse_money_clp") =>
        LET text == call.arg.text
            out == call.out
        IN  /\ out.kind \in {"null", "num", "nan", "inf"}
            /\ call.arg.isNone => out = Null
            /\ LowerText(Strip(text)) \in Placeholders => out = Null
            /\ text = <<"$", " ", "0">> => out = Num(FALSE, 0, 0) /\ out # Null
            /\ out.kind = "num" => \E i \in 1..Len(text) : IsDigit(text[i])
            /\ ParseFloat(LocaleDigits(RemoveChars(text, {"$", " ", "(", ")"}))).kind
                   = "ValueError" => out = Null

\* a text that is no placeholder and no number has given None
C17_Witness ==
    /\ Returned("parse_money_clp")
    /\ call.arg.text = <<"5", ".", "-">>
    /\ call.out = Null

\* the stated format of an identifier, for a text without surrounding
\* whitespace: 1-2 digits, an optional dot, 3 digits, an optional dot,
\* 3 digits, an optional hyphen and a check character
IsIdentifierFormat(t) ==
    \E lead \in 1..2, d1 \in 0..1, d2 \in 0..1, h \in 0..1 :
        LET g1 == lead + d1
            g2 == g1 + 3 + d2
            g3 == g2 + 3 + h
        IN  /\ Len(t) = g3 + 1
            /\ \A i \in 1..lead : IsDigit(t[i])
            /\ d1 = 1 => t[g1] = "."
            /\ \A i \in (g1 + 1)..(g1 + 3) : IsDigit(t[i])
            /\ d2 = 1 => t[g2] = "."
            /\ \A i \in (g2 + 1)..(g2 + 3) : IsDigit(t[i])
            /\ h = 1 => t[g3] = "-"
            /\ IsDigit(t[g3 + 1]) \/ t[g3 + 1] \in {"K", "k"}

\* C18: is_rut accepts exactly the texts that have the identifier format
\* once surrounding whitespace is ignored; it rejects None, the empty text,
\* money-shaped texts, dotted numbers without check character and names.
C18_IsRutExact ==
    Returned("is_rut") =>
        /\ call.out = (~call.arg.isNone /\ IsIdentifierFormat(Strip(call.arg.text)))
        /\ call.arg.text \in {<<"1", "2", ".", "3", "4", "5", ".", "6", "7", "8", "-", "9">>, <<"1", "2", "3", "4", "5", "6", "7", "8", "-", "9">>,
                             <<"1", "2", ".", "3", "4", "5", ".", "6", "7", "8", "-", "K">>, <<"9", ".", "8", "7", "6", ".", "5", "4", "3", "-", "2">>}
               => call.out
        /\ (\/ call.arg.isNone
            \/ call.arg.text \in {<<"$", " ", "4", "5", "8", ".", "8", "3", "2">>, <<"1", ".", "2", "3", "4", ".", "5", "6", "7">>,
                                 <<"J", "u", "a", "n", " ", "S", "o", "t", "o">>, <<>>})
               => ~call.out

\* an identifier with dots, hyphen and the check letter K has been accepted
C18_Witness ==
    /\ Returned("is_rut")
    /\ call.arg.text = <<"1", "2", ".", "3", "4", "5", ".", "6", "7", "8", "-", "K">>
    /\ call.out

-----------------------------------------------------------------------------
(* Properties of the defensive normalizer *)

\* the first cell of the row, in order, that has the identifier format
FirstIdentifierCell(raw) ==
    LET ks == {k \in 1..Len(raw.cells) : is_rut(TextArg(raw.cells[k]))}
    IN  IF ks = {} THEN None
        ELSE Some(Strip(raw.cells[CHOOSE k \in ks : \A j \in ks : k <= j]))

\* the cell resolved as identifier is not empty, has not the identifier
\* format and is money-shaped, and the total-amount slot is empty or not
\* money-shaped
ShiftedWithFreeAmountSlot(raw) ==
    LET id == Resolve(raw, ALIASES_RUT)
        total == Resolve(raw, ALIASES_HONORARIOS_MONTO)
    IN  /\ Truthy(id)
        /\ ~is_rut(ArgOf(id))
        /\ looks_like_money(ArgOf(id))
        /\ ~Truthy(total) \/ ~looks_like_money(ArgOf(total))

\* C19: column-shift recovery of normalize_honorarios_record: the misplaced
\* monetary cell is in monto_total and rut is the first cell of the row with
\* the identifier format, or empty when there is none.
C19_ColumnShiftRecovery ==
    (Returned("normalize_honorarios_record") /\ ShiftedWithFreeAmountSlot(call.arg))
        => /\ call.out.monto_total = Resolve(call.arg, ALIASES_RUT)
           /\ call.out.rut = FirstIdentifierCell(call.arg)

\* the row of the example: the money value under Rut, the identifier under
\* another header, Monto Total empty
C19_Witness ==
    /\ Returned("normalize_honorarios_record")
    /\ call.arg.headers = <<<<"R", "u", "t">>,
                          <<"D", "e", "s", "c", "r", "i", "p", "c", "i", "o", "n">>,
                          <<"M", "o", "n", "t", "o", " ", "T", "o", "t", "a", "l">>>>
    /\ call.arg.cells = <<<<"$", " ", "4", "5", "8", ".", "8", "3", "2">>,
                        <<"1", "5", ".", "9", "9", "9", ".", "8", "8", "8", "-", "7">>,
                        <<>>>>
    /\ call.out.monto_total = Some(<<"$", " ", "4", "5", "8", ".", "8", "3", "2">>)
    /\ call.out.rut = Some(<<"1", "5", ".", "9", "9", "9", ".", "8", "8", "8", "-", "7">>)

\* C20: the rut of a normalized record is never a money value: it is empty
\* or None, or has the identifier format, or is not money-shaped.
C20_RutNeverMoney ==
    (Returned("normalize_honorarios_record")
        \/ Returned("normalize_contrata_planta_record"))
        => \/ ~Truthy(call.out.rut)
           \/ is_rut(ArgOf(call.out.rut))
           \/ ~looks_like_money(ArgOf(call.out.rut))

\* a contrata/planta row whose identifier slot held a money value and that
\* has no identifier in any cell: rut has been emptied
C20_Witness ==
    /\ Returned("normalize_contrata_planta_record")
    /\ looks_like_money(ArgOf(Resolve(call.arg, ALIASES_RUT)))
    /\ call.out.rut = None

\* the raw record with columns i and i + 1 exchanged
SwapColumns(raw, i) ==
    LET Swap(seq) == [k \in 1..Len(seq) |->
                         IF k = i THEN seq[i + 1]
                         ELSE IF k = i + 1 THEN seq[i] ELSE seq[k]]
    IN  [headers |-> Swap(raw.headers), cells |-> Swap(raw.cells)]

\* C21: exchanging two neighbouring columns of the raw record changes no
\* field of the normalized record (the field names are the fixed fields of
\* the record in every case).
C21_ColumnOrderIndependent ==
    /\ Returned("normalize_honorarios_record") =>
          \A i \in 1..(Len(call.arg.headers) - 1) :
              normalize_honorarios_record(SwapColumns(call.arg, i)) = call.out
    /\ Returned("normalize_contrata_planta_record") =>
          \A i \in 1..(Len(call.arg.headers) - 1) :
              normalize_contrata_planta_record(SwapColumns(call.arg, i)) = call.out

\* C22: _parse_float gives None or a finite number for None and for every
\* cell text.
C22_FiniteOrNull ==
    Returned("_parse_float") => call.out.kind \in {"null", "num"}

\* C23: the rut of a record of either engine is empty or None, has the
\* identifier format, or is not money-shaped.
C23_EngineRutNeverMoney ==
    (Returned("HTTPScraper._normalize_honorarios")
        \/ Returned("PortalScraper._normalize_honorarios"))
        => \/ ~Truthy(call.out.rut)
           \/ is_rut(ArgOf(call.out.rut))
           \/ ~looks_like_money(ArgOf(call.out.rut))

-----------------------------------------------------------------------------
(* Further properties of execute_scrape_pipeline *)

FromBrowser(e) == e.src = "playwright"

\* C24: once Phase B has run, the error list is Phase B's errors alone when
\* Phase B loaded a record, and Phase A's errors followed by Phase B's when
\* it loaded none.
C24_FallbackErrors ==
    (w.pc \in {"finalize", "log"} /\ w.phase = "B") =>
        /\ \A i \in 1..Len(w.errors_phase1) : w.errors_phase1[i].src = "http"
        /\ w.total_loaded > 0 => w.errors = SelectSeq(w.errors, FromBrowser)
        /\ w.total_loaded = 0 =>
              w.errors = w.errors_phase1 \o SelectSeq(w.errors, FromBrowser)

\* Phase A recorded an error, Phase B loaded records and recorded an error
\* of its own: only the latter is in the final list
C24_Witness ==
    /\ w.pc = "finalize"
    /\ w.phase = "B"
    /\ w.total_loaded > 0
    /\ w.errors_phase1 # <<>>
    /\ w.errors # <<>>
    /\ \A i \in 1..Len(w.errors) : w.errors[i].src = "playwright"

\* every month of the requested list has been tried when the kind loop goes on
KindFinishesItsMonths ==
    (w.pc = "kind" /\ obs.entered[w.phase] > 0) => Len(obs.monthsTried) = Len(req.months)

\* C25: the months a kind has tried so far are in ascending order, and a
\* kind has tried all of its months before the next kind starts.
C25_MonthsAscending ==
    /\ \A i, j \in 1..Len(obs.monthsTried) :
          i < j => obs.monthsTried[i] < obs.monthsTried[j]
    /\ KindFinishesItsMonths

-----------------------------------------------------------------------------
(* Properties of the HTTP engine's requests and ladder *)

\* what a request may come back with for the call to issue another one
Retryable ==
    {Response(429), Response(503)} \cup {Raised(e) : e \in GetExceptions}

\* C27: a call issues at most `retries` requests; it returns the response at
\* once on 200 and on a status of 400 or more other than 429 and 503; only
\* a 429 or 503 response, a timeout or a transport error is followed by
\* another request, and then after a backoff of 2 ** attempt; the result is
\* None once the attempts are exhausted, and nothing else ends the call.
C27_GetWithRetry ==
    fetch.pc # "none" =>
        /\ Len(fetch.log) <= fetch.retries
        /\ \A i \in 1..Len(fetch.log) :
              i < Len(fetch.log) =>
                  /\ fetch.log[i].outcome \in Retryable
                  /\ fetch.log[i].wait = Backoff(i)
        /\ fetch.result = "response" =>
              LET last == fetch.log[Len(fetch.log)].outcome
              IN  /\ last.exc = "none"
                  /\ last.status = 200
                       \/ (last.status >= 400 /\ last.status \notin {429, 503})
        /\ fetch.result = "None" => Len(fetch.log) = fetch.retries
        /\ fetch.result \in {"pending", "response", "None"}


\* the attempts, the sleeps between them and the result of an extraction
\* are those of a loop of at most MAX_RETRIES attempts
AttemptsInOrder ==
    /\ sect.attempt \in 1..MAX_RETRIES
    /\ Len(sect.sleeps) = sect.attempt - 1
    /\ \A i \in 1..Len(sect.sleeps) :
          /\ sect.sleeps[i] = AttemptBackoff(sect.engine, i)
          /\ i > 1 => sect.sleeps[i] > sect.sleeps[i - 1]
    /\ sect.result \in {"pending", "rows", "empty"}
    /\ sect.pc = "returned" <=> sect.result # "pending"

\* C26: an extraction of either engine makes at most 3 attempts, sleeps
\* after every failed attempt but the last for a time that grows with the
\* attempt number, and ends by returning a list.
C26_AttemptsThenList ==
    /\ [](sect.engine \in SectEngines => AttemptsInOrder)
    /\ <>(sect.pc = "returned")

\* C28: between two consecutive requests of one HTTP extraction,
\* _rate_limit() (or the sleep between two attempts) has been called,
\* whatever the earlier request came back with.
C28_DelayBetweenFetches ==
    sect.engine = "http" => sect.gap # "none"

IsPrefix(s, t) == Len(s) <= Len(t) /\ \A i \in 1..Len(s) : s[i] = t[i]

\* C29: an attempt of the HTTP engine enters the levels in the order 0, 1,
\* 2, 3; every level it has left produced no rows; the rows it returns are
\* those of the level it entered last.
C29_LadderOrder ==
    sect.engine = "http" =>
        /\ IsPrefix(sect.ran, <<0, 1, 2, 3>>)
        /\ \A i \in 1..Len(sect.ran) :
              i < Len(sect.ran) => sect.ran[i] \notin sect.got
        /\ sect.result = "rows" =>
              /\ sect.source = sect.ran[Len(sect.ran)]
              /\ sect.got = {sect.source}
        /\ sect.pc = "returned" \/ sect.result = "pending"

\* the third attempt returns the rows of endpoint discovery after direct
\* access gave a page and the download links and the table gave no rows
C29_Witness ==
    /\ sect.engine = "http"
    /\ sect.attempt = MAX_RETRIES
    /\ sect.result = "rows"
    /\ sect.source = 3
    /\ sect.ran = <<0, 1, 2, 3>>
    /\ sect.links > 0

\* C30: the table pages read in one attempt are at most 50 in the HTTP
\* engine and at most 100 in the Browser engine.
C30_PageCap ==
    sect.engine \in SectEngines =>
        sect.pages <= (IF sect.engine = "http" THEN HttpPageCap ELSE max_pages)

-----------------------------------------------------------------------------
(* Further properties of the value parsers and of the record normalizers *)

RECURSIVE Canonical(_)
\* a number without trailing zeros in its fraction and without a sign on zero
Canonical(r) ==
    IF r.kind # "num" THEN r
    ELSE IF r.scale > 0 /\ r.mant % 10 = 0
         THEN Canonical([r EXCEPT !.mant = @ \div 10, !.scale = @ - 1])
    ELSE IF r.mant = 0 THEN [r EXCEPT !.neg = FALSE]
    ELSE r

\* C40: for None and for every cell text _parse_float gives the value
\* parse_money_clp gives.
C40_SameAsLocaleParser ==
    Returned("_parse_float") =>
        Canonical(call.out) = Canonical(parse_money_clp(call.arg))


\* the first header of the row whose normalized text contains alias a, or 0
HeaderContaining(arg, a) ==
    FirstWhere(Len(arg.headers),
               LAMBDA k : Contains(normalize_header(arg.headers[k]),
                                   arg.aliases[a]))

\* C33: when the first alias that occurs in a header at all occurs there only
\* as a substring, and a later alias equals a different header, get_cell
\* returns the cell under the header of the earlier alias.
C33_EarlierAliasWins ==
    Returned("get_cell") =>
        \A a, b \in 1..Len(call.arg.aliases) :
            LET k == HeaderContaining(call.arg, a)
            IN  (/\ a < b
                 /\ \A c \in 1..(a - 1) : HeaderContaining(call.arg, c) = 0
                 /\ k # 0 /\ k <= Len(call.arg.row)
                 /\ \A j \in 1..Len(call.arg.headers) :
                        normalize_header(call.arg.headers[j]) # call.arg.aliases[a]
                 /\ \E j \in 1..Len(call.arg.row) :
                        /\ j # k /\ j <= Len(call.arg.headers)
                        /\ normalize_header(call.arg.headers[j]) = call.arg.aliases[b])
                => call.out = Some(Strip(call.arg.row[k]))


\* the cell resolved as identifier is not empty, has not the identifier
\* format and is money-shaped, and the gross-amount slot is empty or not
\* money-shaped
ShiftedWithFreeGrossSlot(raw) ==
    LET gross == Resolve(raw, ALIASES_CP_REM_BRUTA)
    IN  /\ ColumnsShifted(Resolve(raw, ALIASES_RUT))
        /\ ~Truthy(gross) \/ ~looks_like_money(ArgOf(gross))

\* C34: column-shift recovery of normalize_contrata_planta_record: the
\* misplaced monetary cell is in remuneracion_bruta and rut is the first cell
\* of the row with the identifier format, or empty when there is none.
C34_ContrataShiftRecovery ==
    (Returned("normalize_contrata_planta_record")
        /\ ShiftedWithFreeGrossSlot(call.arg))
        => /\ call.out.remuneracion_bruta = Resolve(call.arg, ALIASES_RUT)
           /\ call.out.rut = FirstIdentifierCell(call.arg)


\* C35: with the gross amount empty and the net amount present,
\* normalize_contrata_planta_record returns the record with the gross amount
\* as resolved (empty) and the net amount and the rut as they were.
C35_GrossNotSynthesized ==
    (/\ Returned("normalize_contrata_planta_record")
     /\ ~Truthy(Resolve(call.arg, ALIASES_CP_REM_BRUTA))
     /\ Truthy(Resolve(call.arg, ALIASES_CP_REM_LIQUIDA)))
        => /\ ~Truthy(call.out.remuneracion_bruta)
           /\ call.out.remuneracion_bruta = Resolve(call.arg, ALIASES_CP_REM_BRUTA)
           /\ call.out.remuneracion_liquida = Resolve(call.arg, ALIASES_CP_REM_LIQUIDA)
           /\ call.out.rut = RecoveredRut(call.arg, Resolve(call.arg, ALIASES_RUT))

\* the gross column is there with an empty cell, the net column holds an
\* amount: the record has come back with the gross amount still empty
C35_Witness ==
    /\ Returned("normalize_contrata_planta_record")
    /\ call.arg.headers = <<<<"R", "e", "m", "u", "n", "e", "r", "a", "c", "i", "o", "n", " ", "B", "r", "u", "t", "a">>,
                           <<"R", "e", "m", "u", "n", "e", "r", "a", "c", "i", "o", "n", " ", "L", "i", "q", "u", "i", "d", "a">>>>
    /\ call.arg.cells = <<<<>>, <<"$", " ", "4", "5", "8", ".", "8", "3", "2">>>>
    /\ call.out.remuneracion_bruta = Some(<<>>)
    /\ call.out.remuneracion_liquida = Some(<<"$", " ", "4", "5", "8", ".", "8", "3", "2">>)


-----------------------------------------------------------------------------
(* Further properties of the engines *)

\* C36: what _scrape_section returns when the page requires script rendering
\* differs from what it returns when no data was found for another reason
\* (the empty list after the last attempt).
C36_JsOutcomeSurfaced ==
    (sect.engine = "http" /\ sect.pc = "returned" /\ sect.js)
        => sect.result # "empty"


\* C39: an attempt of the Browser engine returns rows only from a page on
\* which the personnel section and the kind's subsection were both activated.
C39_RowsOnlyFromActivatedSection ==
    (sect.engine = "playwright" /\ sect.pc = "returned" /\ sect.result # "empty")
        => (sect.nav.section /\ sect.nav.subsection)


\* C38: once an execution that committed RUNNING has returned or raised, the
\* committed Run is COMPLETED or FAILED and has completed_at set.
C38_NeverLeftRunning ==
    (PipelineEnded /\ writer = "worker")
        => run.status \in Terminal /\ run.completed


\* C37: after close() has returned neither the browser nor the Playwright
\* driver is running, whatever browser.close() did; a constructor that has
\* failed leaves no driver running; no HTTP client stays open after
\* _try_direct_link_download.
C37_ResourcesReleased ==
    /\ portal.pc = "closed" => portal.held \cap {"browser", "driver"} = {}
    /\ portal.pc = "failed" => "driver" \notin portal.held
    /\ portal.pc \in {"ready", "closed"} => "client" \notin portal.held

\* C32: in both engines the header list of a table has one header per
\* column, a header cell spanning N columns counting N times, and the HTTP
\* engine returns the header list the Browser engine returns for the table.
C32_HeadersMatchColumns ==
    /\ (call.fn \in {"_extract_table_headers", "_extract_headers"} /\ call.done
        /\ call.arg.cells[1].text # "1.500")
           => Len(call.out) = ColumnsSpanned(call.arg.cells)
    /\ Returned("_extract_table_headers") => call.out = _extract_headers(call.arg)

\* C31: _parse_html_table parses the earliest table with the highest keyword
\* score among the tables with headers and more than one row; without a
\* scoring table it parses the largest table with at least 3 columns (and
\* more than 2 rows), and none when no table qualifies.
C31_TableChoice ==
    Returned("_parse_html_table") =>
        LET tables == call.arg.tables
            keywords == IF call.arg.section = "honorarios"
                        THEN HONORARIOS_KEYWORDS ELSE CONTRATA_PLANTA_KEYWORDS
            score(i) == Score(tables[i].headers, keywords)
            scoring == {i \in 1..Len(tables) :
                           /\ tables[i].headers # <<>>
                           /\ tables[i].rows > 1
                           /\ score(i) > 0}
            wide == {i \in 1..Len(tables) :
                        Len(tables[i].headers) >= 3 /\ tables[i].rows > 2}
        IN  IF scoring # {}
            THEN /\ call.out \in scoring
                 /\ \A j \in scoring :
                       \/ score(j) < score(call.out)
                       \/ score(j) = score(call.out) /\ call.out <= j
            ELSE IF wide # {}
            THEN /\ call.out \in wide
                 /\ ~\E j \in wide :
                        /\ tables[j].rows > tables[call.out].rows
                        /\ Len(tables[j].headers) >= Len(tables[call.out].headers)
            ELSE call.out = 0

\* the choice by score alone, whatever the fallback does
ScoredChoice ==
    Returned("_parse_html_table") =>
        LET tables == call.arg.tables
            keywords == IF call.arg.section = "honorarios"
                        THEN HONORARIOS_KEYWORDS ELSE CONTRATA_PLANTA_KEYWORDS
            score(i) == Score(tables[i].headers, keywords)
            scoring == {i \in 1..Len(tables) :
                           /\ tables[i].headers # <<>>
                           /\ tables[i].rows > 1
                           /\ score(i) > 0}
        IN  /\ scoring # {} =>
                 /\ call.out \in scoring
                 /\ \A j \in scoring :
                       \/ score(j) < score(call.out)
                       \/ score(j) = score(call.out) /\ call.out <= j
            /\ call.out # 0 => tables[call.out].rows > 1

====
